---- MODULE Spec2Model ----
(***************************************************************************)
(* Conference seating simulation (conference-seating engine, v2.5.5).      *)
(*                                                                         *)
(* The engine (SimulationEngine), the agents (Agent) and the static        *)
(* helpers they call (GridBuilder, PathfindingEngine, SeatSelectionEngine, *)
(* Utils.weightedChoice) are modelled as one state machine.  Each call of  *)
(* initialize() or update() is one action.  Every Math.random() draw is an *)
(* existentially chosen value.                                             *)
(*                                                                         *)
(* The floor plan is the source's plan on a small hall: the hall of the    *)
(* source has 20 rows and 68 columns, seat rows 6..13, back rows 14..19    *)
(* and gates in columns 10, 34, 58.  The hall modelled here keeps that     *)
(* layout (front rows, seat-row band, back rows with the gate row last,    *)
(* gates below seat blocks) with the sizes given by ROWS, COLS and         *)
(* SIM_CONSTANTS below: 4 rows and 8 columns, seat row 1, back rows 2..3,  *)
(* gates in columns 2 and 5, two blocks of one column each.  Fractional    *)
(* weights of the source are kept as integers by a common factor, stated   *)
(* at each place.                                                          *)
(***************************************************************************)
EXTENDS Integers, Sequences, FiniteSets, TLC

VARIABLES config, grid, agents, spawned, time, completed, assigned, gates,
          seatBlocks, corridorSegs, blockToCorridorCells, chartData, lastResult,
          listeners, runHistory, ui

engineVars == <<grid, agents, spawned, time, completed, assigned, gates,
                seatBlocks, corridorSegs, blockToCorridorCells, chartData>>

\* ConfigManager.listeners, UIController.runHistory and the UIController's
\* other fields (ui), which a specification of the engine alone leaves as
\* they are.
uiVars == <<listeners, runHistory, ui>>

vars == <<config, grid, agents, spawned, time, completed, assigned, gates,
          seatBlocks, corridorSegs, blockToCorridorCells, chartData, lastResult,
          listeners, runHistory, ui>>

(***************************************************************************)
(* Bounds of the model.                                                    *)
(***************************************************************************)
\* NUM_AGENTS of the configuration a run is checked with.
NumAgents == 3
\* Largest MAX_TIME of the configurations a run is checked with.
LongMaxTime == 12
\* Math.random() * total is drawn in steps of 1/DrawScale.
DrawScale == 2

(***************************************************************************)
(* Constants of the program.                                               *)
(***************************************************************************)
CELL_TYPES == [EMPTY |-> 0, SEAT |-> 1, CORRIDOR |-> 2, GATE |-> 3,
               SEATED_AGENT |-> 9, STANDING |-> 8]

\* config.ROWS and config.COLS of the hall.
ROWS == 4
COLS == 8

SIM_CONSTANTS ==
    [SEAT_ROWS |-> [START |-> 1, END |-> 2],
     BACK_ROWS |-> [START |-> 2, END |-> 3],
     GATE_POSITIONS |-> <<2, 5>>,
     PATH_ROW_RANGE |-> [START |-> 2, END |-> 3],
     DEFAULT_ROW_THRESHOLD |-> 5]

\* The value of a missing grid (null) and of a missing seat (null).
Null == <<>>

(***************************************************************************)
(* Arithmetic and sequence helpers.                                        *)
(***************************************************************************)
Min(a, b) == IF a <= b THEN a ELSE b
Max(a, b) == IF a >= b THEN a ELSE b
Abs(a) == IF a >= 0 THEN a ELSE -a

RECURSIVE SumSeq(_)
SumSeq(s) == IF s = <<>> THEN 0 ELSE Head(s) + SumSeq(Tail(s))

RECURSIVE Pow2(_)
Pow2(n) == IF n <= 0 THEN 1 ELSE 2 * Pow2(n - 1)

\* The ascending sequence of the integers a..b.
RangeSeq(a, b) == [i \in 1..Max(0, b - a + 1) |-> a + i - 1]

\* The descending sequence of the integers from a down to b.
DownSeq(a, b) == [i \in 1..Max(0, a - b + 1) |-> a - i + 1]

SeqToSet(s) == {s[i] : i \in DOMAIN s}

(***************************************************************************)
(* Utils.weightedChoice.  rnd is Math.random() * total in units of         *)
(* 1/DrawScale, so the loop's "rnd -= weights[i]" subtracts                *)
(* DrawScale * weights[i].                                                 *)
(***************************************************************************)
RECURSIVE TripIndex(_, _, _)
TripIndex(weights, rnd, i) ==
    IF i > Len(weights) THEN 0
    ELSE IF rnd - DrawScale * weights[i] <= 0 THEN i
    ELSE TripIndex(weights, rnd - DrawScale * weights[i], i + 1)

\* WeightedChoice that answers a zero total with the last item.
WeightedChoiceLastOnZero(items, weights, rnd) ==
    IF SumSeq(weights) = 0 THEN items[Len(items)]
    ELSE LET i == TripIndex(weights, rnd, 1)
         IN  IF i # 0 THEN items[i] ELSE items[Len(items)]

WeightedChoice(items, weights, rnd) ==
    IF SumSeq(weights) = 0 THEN items[1]
    ELSE LET i == TripIndex(weights, rnd, 1)
         IN  IF i # 0 THEN items[i] ELSE items[Len(items)]

\* The values Math.random() * total takes, in units of 1/DrawScale: [0, total).
Draws(total) == 0..(DrawScale * total - 1)

\* Every item weightedChoice can return over the draws.  The two arrays are
\* evaluated once, as the arguments of the call are.
WeightedChoices(items, weights) ==
    UNION {IF SumSeq(ws) = 0 THEN {its[1]}
           ELSE {WeightedChoice(its, ws, rnd) : rnd \in Draws(SumSeq(ws))} :
              its \in {items}, ws \in {weights}}

(***************************************************************************)
(* GridBuilder.                                                            *)
(***************************************************************************)
\* GenerateSeatBlocks that places each block right after the one before it.
GenerateSeatBlocksNoGap(cols, numBlocks, corridorWidth) ==
    LET totalSeat == cols - (numBlocks + 1) * corridorWidth
        blockWidth == totalSeat \div numBlocks
    IN  [i \in 0..(numBlocks - 1) |->
            LET start == corridorWidth + i * blockWidth
            IN  <<start, start + blockWidth - 1>>]

\* blocks[i] = <<start, end>> for i in 0..numBlocks-1.
GenerateSeatBlocks(cols, numBlocks, corridorWidth) ==
    LET totalSeat == cols - (numBlocks + 1) * corridorWidth
        blockWidth == totalSeat \div numBlocks
    IN  [i \in 0..(numBlocks - 1) |->
            LET start == corridorWidth + i * (blockWidth + corridorWidth)
            IN  <<start, start + blockWidth - 1>>]

\* The left margin, then one segment after each block, clipped to the grid;
\* a segment clipped to nothing is dropped.
GenerateCorridorSegments(cols, blocks, corridorWidth) ==
    LET numBlocks == Cardinality(DOMAIN blocks)
        leftMargin == RangeSeq(0, corridorWidth - 1)
        seg(i) == RangeSeq(blocks[i][2] + 1, blocks[i][2] + corridorWidth)
        validSeg(i) == SelectSeq(seg(i), LAMBDA col : col < cols)
        all == [k \in 1..numBlocks |-> validSeg(k - 1)]
    IN  <<leftMargin>> \o SelectSeq(all, LAMBDA s : Len(s) > 0)

GateColumns(cfg) ==
    SelectSeq(SIM_CONSTANTS.GATE_POSITIONS, LAMBDA c : c < cfg.COLS)

Cells(cfg) == (0..(cfg.ROWS - 1)) \X (0..(cfg.COLS - 1))

\* BuildGrid whose seat loop also fills row SEAT_ROWS.END.
BuildGridBandInclusive(cfg, fault) ==
    IF fault THEN Null
    ELSE
    LET blocks == GenerateSeatBlocks(cfg.COLS, cfg.NUM_BLOCKS, cfg.CORRIDOR_WIDTH)
        segs == GenerateCorridorSegments(cfg.COLS, blocks, cfg.CORRIDOR_WIDTH)
        inBlock(c) == \E b \in DOMAIN blocks : blocks[b][1] <= c /\ c <= blocks[b][2]
        inSeg(c) == \E k \in DOMAIN segs : c \in SeqToSet(segs[k])
        seatRow(r) == SIM_CONSTANTS.SEAT_ROWS.START <= r /\ r <= SIM_CONSTANTS.SEAT_ROWS.END
    IN  [p \in Cells(cfg) |->
            IF p[1] = cfg.ROWS - 1 /\ p[2] \in SeqToSet(GateColumns(cfg))
                THEN CELL_TYPES.GATE
            ELSE IF seatRow(p[1]) /\ inBlock(p[2]) THEN CELL_TYPES.SEAT
            ELSE IF inSeg(p[2]) THEN CELL_TYPES.CORRIDOR
            ELSE CELL_TYPES.EMPTY]

\* fault: a runtime fault inside the try block, which buildGrid turns into null.
BuildGrid(cfg, fault) ==
    IF fault THEN Null
    ELSE
    LET blocks == GenerateSeatBlocks(cfg.COLS, cfg.NUM_BLOCKS, cfg.CORRIDOR_WIDTH)
        segs == GenerateCorridorSegments(cfg.COLS, blocks, cfg.CORRIDOR_WIDTH)
        inBlock(c) == \E b \in DOMAIN blocks : blocks[b][1] <= c /\ c <= blocks[b][2]
        inSeg(c) == \E k \in DOMAIN segs : c \in SeqToSet(segs[k])
        seatRow(r) == SIM_CONSTANTS.SEAT_ROWS.START <= r /\ r < SIM_CONSTANTS.SEAT_ROWS.END
    IN  [p \in Cells(cfg) |->
            IF p[1] = cfg.ROWS - 1 /\ p[2] \in SeqToSet(GateColumns(cfg))
                THEN CELL_TYPES.GATE
            ELSE IF seatRow(p[1]) /\ inBlock(p[2]) THEN CELL_TYPES.SEAT
            ELSE IF inSeg(p[2]) THEN CELL_TYPES.CORRIDOR
            ELSE CELL_TYPES.EMPTY]

(***************************************************************************)
(* PathfindingEngine.                                                      *)
(***************************************************************************)
\* The values a loop variable takes walking from a (exclusive) to b (inclusive).
Toward(a, b) ==
    IF a = b THEN <<>>
    ELSE IF b > a THEN RangeSeq(a + 1, b)
    ELSE DownSeq(a - 1, b)

\* A path that climbs the gate column to the seat row and follows that row
\* to the seat.
ComputeSimplePathSeatRowFirst(spawn, corridor, seat, row0) ==
    LET v == Toward(spawn[1], seat[1])
        h == Toward(spawn[2], seat[2])
    IN  [i \in DOMAIN v |-> <<v[i], spawn[2]>>] \o [i \in DOMAIN h |-> <<seat[1], h[i]>>]

ComputeSimplePath(spawn, corridor, seat, row0) ==
    LET r == spawn[1]
        c == spawn[2]
        r1 == seat[1]
        c1 == seat[2]
        v1 == Toward(r, row0)
        h1 == Toward(c, corridor)
        v2 == IF row0 > r1 THEN DownSeq(row0 - 1, r1) ELSE <<>>
        h2 == Toward(corridor, c1)
    IN  [i \in DOMAIN v1 |-> <<v1[i], c>>]
        \o [i \in DOMAIN h1 |-> <<row0, h1[i]>>]
        \o [i \in DOMAIN v2 |-> <<v2[i], corridor>>]
        \o [i \in DOMAIN h2 |-> <<r1, h2[i]>>]

\* gates.reduce(...): the first gate at the least distance from gateCol (1-based).
RECURSIVE ClosestGate(_, _, _, _)
ClosestGate(gs, gateCol, closest, i) ==
    IF i > Len(gs) THEN closest
    ELSE IF Abs(gs[i][2] - gateCol) < Abs(gs[closest][2] - gateCol)
         THEN ClosestGate(gs, gateCol, i, i + 1)
         ELSE ClosestGate(gs, gateCol, closest, i + 1)

\* pickBlockBasedOnGate that adds the block after the base block without
\* testing that there is one.
PickBlockBasedOnGateNoUpperTest(gateCol, numBlocks, gs) ==
    IF Len(gs) = 0 \/ numBlocks <= 0 THEN {0}
    ELSE
    LET matches == {i \in DOMAIN gs : gs[i][2] = gateCol}
    IN  IF matches = {}
        THEN LET closestGateIndex == ClosestGate(gs, gateCol, 1, 1) - 1
                 blockSpan == Max(1, numBlocks \div Len(gs))
                 baseBlock == Min(closestGateIndex * blockSpan, numBlocks - 1)
                 b2 == IF baseBlock > 0 THEN <<baseBlock, baseBlock - 1>> ELSE <<baseBlock>>
                 w2 == IF baseBlock > 0 THEN <<6, 2>> ELSE <<6>>
             IN  WeightedChoices(Append(b2, baseBlock + 1), Append(w2, 2))
        ELSE LET gateIndex == (CHOOSE i \in matches : \A j \in matches : i <= j) - 1
                 baseBlock == (gateIndex * numBlocks) \div Len(gs)
             IN  WeightedChoices(<<baseBlock, baseBlock + 1>>, <<6, 3>>)

\* The blocks pickBlockBasedOnGate can return.  Weights are in tenths.
PickBlockBasedOnGate(gateCol, numBlocks, gs) ==
    IF Len(gs) = 0 \/ numBlocks <= 0 THEN {0}
    ELSE
    LET matches == {i \in DOMAIN gs : gs[i][2] = gateCol}
    IN  IF matches = {}
        THEN LET closestGateIndex == ClosestGate(gs, gateCol, 1, 1) - 1
                 blockSpan == Max(1, numBlocks \div Len(gs))
                 baseBlock == Min(closestGateIndex * blockSpan, numBlocks - 1)
                 b1 == <<baseBlock>>
                 w1 == <<6>>
                 b2 == IF baseBlock > 0 THEN Append(b1, baseBlock - 1) ELSE b1
                 w2 == IF baseBlock > 0 THEN Append(w1, 2) ELSE w1
                 b3 == IF baseBlock < numBlocks - 1 THEN Append(b2, baseBlock + 1) ELSE b2
                 w3 == IF baseBlock < numBlocks - 1 THEN Append(w2, 2) ELSE w2
             IN  WeightedChoices(b3, w3)
        ELSE LET gateIndex == (CHOOSE i \in matches : \A j \in matches : i <= j) - 1
                 \* Math.floor(gateIndex * (numBlocks / gates.length))
                 baseBlock == (gateIndex * numBlocks) \div Len(gs)
                 b1 == IF baseBlock < numBlocks THEN <<baseBlock>> ELSE <<>>
                 w1 == IF baseBlock < numBlocks THEN <<6>> ELSE <<>>
                 b2 == IF baseBlock + 1 < numBlocks THEN Append(b1, baseBlock + 1) ELSE b1
                 w2 == IF baseBlock + 1 < numBlocks THEN Append(w1, 3) ELSE w1
                 b3 == IF baseBlock > 0 /\ Len(b2) < 2 THEN Append(b2, baseBlock - 1) ELSE b2
                 w3 == IF baseBlock > 0 /\ Len(b2) < 2 THEN Append(w2, 1) ELSE w2
             IN  WeightedChoices(b3, w3)

\* Math.min(...seg.map(c => Math.abs(seatCol - c)))
SegDistance(seg, seatCol) ==
    CHOOSE d \in {Abs(seatCol - seg[i]) : i \in DOMAIN seg} :
        \A i \in DOMAIN seg : d <= Abs(seatCol - seg[i])

\* chosenSeg.reduce(...) that keeps the first column of the segment.
ClosestColFirst(seg, seatCol) == seg[1]

\* chosenSeg.reduce(...): the first column of the segment nearest seatCol.
ClosestCol(seg, seatCol) ==
    seg[CHOOSE i \in DOMAIN seg :
            /\ Abs(seatCol - seg[i]) = SegDistance(seg, seatCol)
            /\ \A j \in DOMAIN seg :
                  Abs(seatCol - seg[j]) = SegDistance(seg, seatCol) => i <= j]

RECURSIVE ProductSeq(_)
ProductSeq(s) == IF s = <<>> THEN 1 ELSE Head(s) * ProductSeq(Tail(s))

\* The corridor columns pickPreferredCorridorCell can return.  The weights
\* 1/(d+1) are multiplied by the product of all the (d+1).
PickPreferredCorridorCell(block, seatCol, b2c) ==
    IF block \notin DOMAIN b2c THEN {4}
    ELSE LET segments == b2c[block]
             den == [k \in DOMAIN segments |-> SegDistance(segments[k], seatCol) + 1]
             segWeights == [k \in DOMAIN segments |-> ProductSeq(den) \div den[k]]
         IN  IF Len(segments) = 0 THEN {4}
             ELSE {ClosestCol(seg, seatCol) : seg \in WeightedChoices(segments, segWeights)}

(***************************************************************************)
(* SeatSelectionEngine.                                                    *)
(***************************************************************************)
\* grid.length and grid[0].length
GridRows(g) == Cardinality({p[1] : p \in DOMAIN g})
GridCols(g) == Cardinality({p[2] : p \in DOMAIN g})

IsValidPosition(row, col, maxRow, maxCol) ==
    row >= 0 /\ row < maxRow /\ col >= 0 /\ col < maxCol

RowOccupancy(g, row, c0, c1) ==
    Cardinality({c \in c0..c1 :
        g[<<row, c>>] \in {CELL_TYPES.SEATED_AGENT, CELL_TYPES.STANDING}})

Dirs == {<<-1, 0>>, <<1, 0>>, <<0, -1>>, <<0, 1>>,
         <<-1, -1>>, <<-1, 1>>, <<1, -1>>, <<1, 1>>}

CountAdjacentSeated(g, seat) ==
    Cardinality({d \in Dirs :
        /\ IsValidPosition(seat[1] + d[1], seat[2] + d[2], GridRows(g), GridCols(g))
        /\ g[<<seat[1] + d[1], seat[2] + d[2]>>] = CELL_TYPES.SEATED_AGENT})

\* The outcomes of "Math.random() < p", p in thousandths.
BoolDraws(p) == {b \in BOOLEAN : (b /\ p > 0) \/ (~b /\ p < 1000)}

\* AvailableRowsIn without the test of the row's occupancy.
AvailableRowsInAnyOccupancy(seatRows, g, c0, c1, asg, rowThr) ==
    SelectSeq(RangeSeq(seatRows.START, seatRows.END - 1),
              LAMBDA r :
                  \E c \in c0..c1 :
                      g[<<r, c>>] = CELL_TYPES.SEAT /\ <<r, c>> \notin asg)

\* STEP 1 of pickSeatInBlock for the seat band seatRows (START inclusive, END
\* exclusive): the rows below the threshold that hold an unassigned Seat
\* cell, front row first.
AvailableRowsIn(seatRows, g, c0, c1, asg, rowThr) ==
    SelectSeq(RangeSeq(seatRows.START, seatRows.END - 1),
              LAMBDA r :
                  /\ RowOccupancy(g, r, c0, c1) < rowThr
                  /\ \E c \in c0..c1 :
                        g[<<r, c>>] = CELL_TYPES.SEAT /\ <<r, c>> \notin asg)

\* STEP 1 with the seat band of SIM_CONSTANTS.
AvailableRows(g, c0, c1, asg, rowThr) ==
    AvailableRowsIn(SIM_CONSTANTS.SEAT_ROWS, g, c0, c1, asg, rowThr)

\* The candidate rows left by the hard and the two probabilistic front-row
\* exclusions, over the draws.  backPref is config.BACK_PREF in halves.
\* (availableRows is ascending, so [...candidateRows].sort() changes nothing.)
CandidateRows(availableRows, backPref) ==
    IF backPref > 0
    THEN LET startRow == SIM_CONSTANTS.SEAT_ROWS.START
             banFrontRows == IF backPref >= 8 THEN 2 ELSE IF backPref >= 4 THEN 1 ELSE 0
             filtered == SelectSeq(availableRows, LAMBDA r : (r - startRow) >= banFrontRows)
             cand == IF banFrontRows > 0 /\ Len(filtered) > 0 THEN filtered ELSE availableRows
             frontMost == cand[1]
             hasSecond == Len(cand) >= 2
             \* Math.min(0.15 + 0.15 * BACK_PREF, 0.85), in thousandths
             pAvoidFront == Min(150 + 75 * backPref, 850)
             pAvoidSecond == IF backPref >= 8 THEN 350 ELSE IF backPref >= 6 THEN 200 ELSE 0
             step1(d1) == LET tmp == SelectSeq(cand, LAMBDA r : r # frontMost)
                          IN  IF d1 /\ Len(tmp) > 0 THEN tmp ELSE cand
             step2(pf, d2) == LET tmp2 == SelectSeq(pf, LAMBDA r : r # cand[2])
                              IN  IF Len(pf) > 1 /\ hasSecond /\ d2 /\ Len(tmp2) > 0
                                  THEN tmp2 ELSE pf
             adopt(pf) == IF Len(pf) > 0 /\ Len(pf) # Len(cand) THEN pf ELSE cand
         IN  {adopt(step2(step1(d1), d2)) :
                 d1 \in BoolDraws(pAvoidFront), d2 \in BoolDraws(pAvoidSecond)}
    ELSE {availableRows}

\* The rows the row choice can yield.  Weights 1 + BACK_PREF * 2^rowFromFront
\* are doubled.
ChosenRows(candidateRows, backPref) ==
    IF backPref > 0
    THEN WeightedChoices(candidateRows,
            [i \in DOMAIN candidateRows |->
                2 + backPref * Pow2(candidateRows[i] - SIM_CONSTANTS.SEAT_ROWS.START)])
    ELSE SeqToSet(candidateRows)

\* STEP 2: the weight of seat <<row, c>>.  Every term is >= 0 and the base is
\* 1, so Math.max(seatWeight, 0.01) is seatWeight.
SeatWeight(g, row, c, c0, c1, cfg) ==
    1 + (IF Min(c - c0, c1 - c) <= 1 /\ cfg.AISLE_PREF > 0 THEN cfg.AISLE_PREF * 3 ELSE 0)
      + (8 - CountAdjacentSeated(g, <<row, c>>)) * cfg.SOCIAL_DISTANCE

\* pickSeatInBlock whose hard front-row exclusion is adopted even when it
\* leaves no row: the row choice then has nothing to choose from and the
\* function returns null.
PickSeatInBlockInBanUnguarded(seatRows, g, block, asg, blocks, cfg, rowThr) ==
    IF g = Null \/ block \notin DOMAIN blocks THEN {Null}
    ELSE
    LET c0 == blocks[block][1]
        c1 == blocks[block][2]
        availableRows == AvailableRowsIn(seatRows, g, c0, c1, asg, rowThr)
        banFrontRows == IF cfg.BACK_PREF >= 8 THEN 2 ELSE IF cfg.BACK_PREF >= 4 THEN 1 ELSE 0
        filtered == SelectSeq(availableRows, LAMBDA r : (r - seatRows.START) >= banFrontRows)
        validCols(row) == SelectSeq(RangeSeq(c0, c1),
                             LAMBDA c : g[<<row, c>>] = CELL_TYPES.SEAT /\ <<row, c>> \notin asg)
        seatsOf(row) == [i \in DOMAIN validCols(row) |-> <<row, validCols(row)[i]>>]
        weightsOf(row) == [i \in DOMAIN validCols(row) |->
                              SeatWeight(g, row, validCols(row)[i], c0, c1, cfg)]
    IN  IF Len(availableRows) = 0 \/ Len(filtered) = 0 THEN {Null}
        ELSE UNION {UNION {IF Len(validCols(row)) = 0 THEN {Null}
                           ELSE WeightedChoices(seatsOf(row), weightsOf(row)) :
                               row \in ChosenRows(cand, cfg.BACK_PREF)} :
                        cand \in CandidateRows(availableRows, cfg.BACK_PREF)}

\* Every value pickSeatInBlock can return for the seat band seatRows: seats
\* <<r, c>>, or Null.  A missing grid or block faults inside the try block
\* and yields null.
PickSeatInBlockIn(seatRows, g, block, asg, blocks, cfg, rowThr) ==
    IF g = Null \/ block \notin DOMAIN blocks THEN {Null}
    ELSE
    LET c0 == blocks[block][1]
        c1 == blocks[block][2]
        availableRows == AvailableRowsIn(seatRows, g, c0, c1, asg, rowThr)
        validCols(row) == SelectSeq(RangeSeq(c0, c1),
                             LAMBDA c : g[<<row, c>>] = CELL_TYPES.SEAT /\ <<row, c>> \notin asg)
        seatsOf(row) == [i \in DOMAIN validCols(row) |-> <<row, validCols(row)[i]>>]
        weightsOf(row) == [i \in DOMAIN validCols(row) |->
                              SeatWeight(g, row, validCols(row)[i], c0, c1, cfg)]
    IN  IF Len(availableRows) = 0 THEN {Null}
        ELSE UNION {UNION {IF Len(validCols(row)) = 0 THEN {Null}
                           ELSE WeightedChoices(seatsOf(row), weightsOf(row)) :
                               row \in ChosenRows(cand, cfg.BACK_PREF)} :
                        cand \in CandidateRows(availableRows, cfg.BACK_PREF)}

\* pickSeatInBlock with the seat band of SIM_CONSTANTS.
PickSeatInBlock(g, block, asg, blocks, cfg, rowThr) ==
    PickSeatInBlockIn(SIM_CONSTANTS.SEAT_ROWS, g, block, asg, blocks, cfg, rowThr)

\* pickSeatAnyBlock that tries the first block of the shuffle only, for the
\* shuffles that put a block without a seat first when there is one.
PickSeatAnyBlockFirstOnly(g, asg, blocks, cfg, rowThr) ==
    IF \E b \in DOMAIN blocks : Null \in PickSeatInBlock(g, b, asg, blocks, cfg, rowThr)
    THEN {<<Null, Null>>}
    ELSE UNION {{<<b, s>> : s \in PickSeatInBlock(g, b, asg, blocks, cfg, rowThr)} :
                   b \in DOMAIN blocks}

\* Every <<block, seat>> pickSeatAnyBlock can return.  The shuffle can put any
\* block first, and a block is passed over exactly when it yields null.
PickSeatAnyBlock(g, asg, blocks, cfg, rowThr) ==
    LET found == {bs \in UNION {{<<b, s>> : s \in PickSeatInBlock(g, b, asg, blocks, cfg, rowThr)} :
                                   b \in DOMAIN blocks} : bs[2] # Null}
    IN  IF found = {} THEN {<<Null, Null>>} ELSE found

\* The "Safe fallback" of findStandingPosition.
SafeFallback == <<2, 2>>

\* Every position findStandingPosition can return.
FindStandingPosition(g) ==
    IF g = Null THEN {SafeFallback}
    ELSE
    LET rows == DownSeq(SIM_CONSTANTS.BACK_ROWS.END, SIM_CONSTANTS.BACK_ROWS.START)
        candidates(r) == {<<r, c>> : c \in {c \in 0..(GridCols(g) - 1) :
                              g[<<r, c>>] \notin {CELL_TYPES.SEAT, CELL_TYPES.GATE,
                                                  CELL_TYPES.SEATED_AGENT, CELL_TYPES.STANDING}}}
        hits == {i \in DOMAIN rows : candidates(rows[i]) # {}}
    IN  IF hits # {}
        THEN candidates(rows[CHOOSE i \in hits : \A j \in hits : i <= j])
        ELSE {<<r, c>> : r \in SIM_CONSTANTS.BACK_ROWS.START..SIM_CONSTANTS.BACK_ROWS.END,
                         c \in 0..(GridCols(g) - 1)}

(***************************************************************************)
(* Agent.                                                                  *)
(***************************************************************************)
\* The turn row of a will-stand agent (this.row0 = 19, the gate row).
StandRow0 == 3

\* The number of turn rows: row0 = PATH_ROW_RANGE.START + floor(random * n).
PathRowChoices == 2

\* Every agent the constructor can build, over the draws.  cfg is the
\* per-spawn configuration, whose BACK_PREF is in halves.
NewAgents(g, spawn, asg, blocks, b2c, cfg, gs) ==
    LET numBlocks == Cardinality(DOMAIN blocks)
        thr == SIM_CONSTANTS.DEFAULT_ROW_THRESHOLD
        clamp(b) == IF b >= numBlocks THEN numBlocks - 1 ELSE b
        seatBound(b, seat) ==
            {[pos |-> spawn, seated |-> FALSE, standing |-> FALSE, willStand |-> FALSE,
              block |-> b, seat |-> seat, corridor |-> corridor, row0 |-> row0,
              path |-> ComputeSimplePath(spawn, corridor, seat, row0)] :
                 corridor \in PickPreferredCorridorCell(b, seat[2], b2c),
                 row0 \in {SIM_CONSTANTS.PATH_ROW_RANGE.START + k : k \in 0..(PathRowChoices - 1)}}
        willStand(b) ==
            {[pos |-> spawn, seated |-> FALSE, standing |-> FALSE, willStand |-> TRUE,
              block |-> b, seat |-> standPos, corridor |-> cfg.CORRIDOR_WIDTH,
              row0 |-> StandRow0,
              path |-> ComputeSimplePath(spawn, cfg.CORRIDOR_WIDTH, standPos, StandRow0)] :
                 standPos \in FindStandingPosition(g)}
        fromBlock(b) ==
            UNION {IF seat # Null THEN seatBound(b, seat)
                   ELSE UNION {IF bs[2] = Null THEN willStand(b) ELSE seatBound(bs[1], bs[2]) :
                                  bs \in PickSeatAnyBlock(g, asg, blocks, cfg, thr)} :
                       seat \in PickSeatInBlock(g, b, asg, blocks, cfg, thr)}
    IN  UNION {fromBlock(clamp(b0)) : b0 \in PickBlockBasedOnGate(spawn[2], numBlocks, gs)}

\* AssignedAfter with the reservation of the seat left out.
AssignedAfterNever(asg, a, cfg) == asg

\* assigned.add(seat) in the constructor, for a seat-bound agent.
AssignedAfter(asg, a, cfg) ==
    IF ~a.willStand /\ cfg.FEATURE_ASSIGNED_SEATS THEN asg \cup {a.seat} ELSE asg

IsTerminal(a) == a.seated \/ a.standing

\* AgentUpdate without the defensive branch: an agent that arrives on a cell
\* that is not a Seat stays as it is.
AgentUpdateStuck(a, g) ==
    IF a.seated \/ a.standing THEN <<a, g>>
    ELSE IF Len(a.path) = 0
    THEN IF g = Null \/ a.pos \notin DOMAIN g
         THEN <<[a EXCEPT !.standing = TRUE], g>>
         ELSE IF a.willStand
         THEN <<[a EXCEPT !.standing = TRUE], [g EXCEPT ![a.pos] = CELL_TYPES.STANDING]>>
         ELSE IF g[a.pos] = CELL_TYPES.SEAT
         THEN <<[a EXCEPT !.seated = TRUE], [g EXCEPT ![a.pos] = CELL_TYPES.SEATED_AGENT]>>
         ELSE <<a, g>>
    ELSE <<[a EXCEPT !.pos = Head(a.path), !.path = Tail(a.path)], g>>

\* Agent.update without its first line: a settled agent is settled again.
AgentUpdateNoReturn(a, g) ==
    IF Len(a.path) = 0
    THEN IF g = Null \/ a.pos \notin DOMAIN g
         THEN <<[a EXCEPT !.standing = TRUE], g>>
         ELSE IF a.willStand
         THEN <<[a EXCEPT !.standing = TRUE], [g EXCEPT ![a.pos] = CELL_TYPES.STANDING]>>
         ELSE IF g[a.pos] = CELL_TYPES.SEAT
         THEN <<[a EXCEPT !.seated = TRUE], [g EXCEPT ![a.pos] = CELL_TYPES.SEATED_AGENT]>>
         ELSE <<[a EXCEPT !.standing = TRUE], [g EXCEPT ![a.pos] = CELL_TYPES.STANDING]>>
    ELSE <<[a EXCEPT !.pos = Head(a.path), !.path = Tail(a.path)], g>>

\* Agent.update that seats every agent that is not will-stand, whatever the
\* type of the cell it arrived on.
AgentUpdateSeatsAnywhere(a, g) ==
    IF IsTerminal(a) THEN <<a, g>>
    ELSE IF Len(a.path) = 0
    THEN IF g = Null \/ a.pos \notin DOMAIN g
         THEN <<[a EXCEPT !.standing = TRUE], g>>
         ELSE IF a.willStand
         THEN <<[a EXCEPT !.standing = TRUE], [g EXCEPT ![a.pos] = CELL_TYPES.STANDING]>>
         ELSE <<[a EXCEPT !.seated = TRUE], [g EXCEPT ![a.pos] = CELL_TYPES.SEATED_AGENT]>>
    ELSE <<[a EXCEPT !.pos = Head(a.path), !.path = Tail(a.path)], g>>

\* Agent.update that settles in the same call in which it takes the last
\* step of the path.
AgentUpdateSettlesOnArrival(a, g) ==
    IF IsTerminal(a) THEN <<a, g>>
    ELSE LET b == IF Len(a.path) = 0 THEN a
                  ELSE [a EXCEPT !.pos = Head(a.path), !.path = Tail(a.path)]
         IN  IF Len(b.path) # 0 THEN <<b, g>>
             ELSE IF g = Null \/ b.pos \notin DOMAIN g
             THEN <<[b EXCEPT !.standing = TRUE], g>>
             ELSE IF b.willStand
             THEN <<[b EXCEPT !.standing = TRUE], [g EXCEPT ![b.pos] = CELL_TYPES.STANDING]>>
             ELSE IF g[b.pos] = CELL_TYPES.SEAT
             THEN <<[b EXCEPT !.seated = TRUE], [g EXCEPT ![b.pos] = CELL_TYPES.SEATED_AGENT]>>
             ELSE <<[b EXCEPT !.standing = TRUE], [g EXCEPT ![b.pos] = CELL_TYPES.STANDING]>>

\* Agent.update: <<the agent, the grid>> after the call.  A missing grid (or
\* a missing grid row) faults inside the try block, whose catch sets standing.
AgentUpdate(a, g) ==
    IF IsTerminal(a) THEN <<a, g>>
    ELSE IF Len(a.path) = 0
    THEN IF g = Null \/ a.pos \notin DOMAIN g
         THEN <<[a EXCEPT !.standing = TRUE], g>>
         ELSE IF a.willStand
         THEN <<[a EXCEPT !.standing = TRUE], [g EXCEPT ![a.pos] = CELL_TYPES.STANDING]>>
         ELSE IF g[a.pos] = CELL_TYPES.SEAT
         THEN <<[a EXCEPT !.seated = TRUE], [g EXCEPT ![a.pos] = CELL_TYPES.SEATED_AGENT]>>
         ELSE <<[a EXCEPT !.standing = TRUE], [g EXCEPT ![a.pos] = CELL_TYPES.STANDING]>>
    ELSE <<[a EXCEPT !.pos = Head(a.path), !.path = Tail(a.path)], g>>

(***************************************************************************)
(* ConfigManager: the configuration object the engine holds.               *)
(***************************************************************************)
\* calculateCorridorWidth: widths 2..6 in ascending order, a width replacing
\* the best so far only when it gives strictly more seats per block.
RECURSIVE CorridorSearch(_, _, _, _, _)
CorridorSearch(totalCols, numBlocks, corridorWidth, bestCorridorWidth, bestSeatsPerBlock) ==
    IF corridorWidth > 6 THEN bestCorridorWidth
    ELSE LET remainingForSeats == totalCols - (numBlocks + 1) * corridorWidth
             seatsPerBlock == remainingForSeats \div numBlocks
         IN  IF seatsPerBlock > bestSeatsPerBlock /\ remainingForSeats >= 0
             THEN CorridorSearch(totalCols, numBlocks, corridorWidth + 1,
                                 corridorWidth, seatsPerBlock)
             ELSE CorridorSearch(totalCols, numBlocks, corridorWidth + 1,
                                 bestCorridorWidth, bestSeatsPerBlock)

\* A search that keeps the last width leaving a non-negative seat budget.
CalculateCorridorWidthLast(totalCols, numBlocks) ==
    LET fits == {w \in 2..6 : totalCols - (numBlocks + 1) * w >= 0}
    IN  IF fits = {} THEN 2 ELSE CHOOSE w \in fits : \A v \in fits : v <= w

CalculateCorridorWidth(totalCols, numBlocks) ==
    CorridorSearch(totalCols, numBlocks, 2, 2, 0)

\* MAX_TIME of a configuration whose limit cuts the run short.
ShortMaxTime == 3

\* The configurations a run is checked with: the constructor's, on the hall
\* of this model, with either value of the assigned-seats switch and a short
\* or a long tick limit.
Configs ==
    {[ROWS |-> ROWS, COLS |-> COLS, NUM_BLOCKS |-> 2,
      CORRIDOR_WIDTH |-> CalculateCorridorWidth(COLS, 2),
      FEATURE_ASSIGNED_SEATS |-> f, NUM_AGENTS |-> NumAgents,
      MAX_TIME |-> m, SOCIAL_DISTANCE |-> 3, BACK_PREF |-> 3, AISLE_PREF |-> 2] :
        f \in BOOLEAN, m \in {ShortMaxTime, LongMaxTime}}

(***************************************************************************)
(* SimulationEngine.                                                       *)
(***************************************************************************)
EmptyChart == [time |-> <<>>, seated |-> <<>>, standing |-> <<>>]

\* The UIController after its constructor and the reset() of page load: no
\* engine, nothing built, nothing running, no timer, no run completed yet.
\* timer tells whether animationId refers to a pending timeout, pending is
\* the number of timeouts set and neither fired nor cleared.
\* inStart is set while start() is between its assignment of isRunning and
\* its call of animate(); completions counts the calls of addToRunHistory and
\* stands for the clock that new Date() reads.
InitialUI == [hasSimulation |-> FALSE, isBuilt |-> FALSE, isRunning |-> FALSE,
              timer |-> FALSE, pending |-> 0, inStart |-> FALSE, completions |-> 0]

\* The state after new SimulationEngine(config).
Init ==
    /\ config \in Configs
    /\ grid = Null
    /\ agents = <<>>
    /\ spawned = 0
    /\ time = 0
    /\ completed = FALSE
    /\ assigned = {}
    /\ gates = <<>>
    /\ seatBlocks = <<>>
    /\ corridorSegs = <<>>
    /\ blockToCorridorCells = <<>>
    /\ chartData = EmptyChart
    /\ lastResult = [op |-> "new"]
    /\ listeners = <<>>
    /\ runHistory = <<>>
    /\ ui = InitialUI

\* The block -> corridor segments map built by initialize().
BlockToCorridorCells(cfg, segs) ==
    [i \in 0..(cfg.NUM_BLOCKS - 1) |->
        LET left == IF (i + 1) \in DOMAIN segs THEN <<segs[i + 1]>> ELSE <<>>
            right == IF (i + 2) \in DOMAIN segs THEN <<segs[i + 2]>> ELSE <<>>
            both == left \o right
        IN  IF Len(both) = 1 /\ i = cfg.NUM_BLOCKS - 1 /\ i \in DOMAIN segs
            THEN <<segs[i]>> \o both
            ELSE both]

\* InitializeCall that builds a grid only when the engine holds none.
InitializeCallKeepsGrid(buildFault) ==
    LET g == IF grid # Null /\ ~buildFault THEN grid ELSE BuildGrid(config, buildFault)
    IN  /\ grid' = g
        /\ IF g = Null
           THEN /\ UNCHANGED <<agents, spawned, time, completed, assigned, gates,
                               seatBlocks, corridorSegs, blockToCorridorCells, chartData>>
                /\ lastResult' = [op |-> "initialize", ok |-> FALSE]
           ELSE LET blocks == GenerateSeatBlocks(config.COLS, config.NUM_BLOCKS,
                                                 config.CORRIDOR_WIDTH)
                    segs == GenerateCorridorSegments(config.COLS, blocks,
                                                     config.CORRIDOR_WIDTH)
                    gateCols == GateColumns(config)
                IN  /\ agents' = <<>>
                    /\ spawned' = 0
                    /\ time' = 0
                    /\ completed' = FALSE
                    /\ assigned' = {}
                    /\ gates' = [i \in DOMAIN gateCols |-> <<config.ROWS - 1, gateCols[i]>>]
                    /\ seatBlocks' = blocks
                    /\ corridorSegs' = segs
                    /\ blockToCorridorCells' = BlockToCorridorCells(config, segs)
                    /\ chartData' = EmptyChart
                    /\ lastResult' = [op |-> "initialize", ok |-> TRUE]
        /\ UNCHANGED config

\* initialize(): buildFault is a fault inside buildGrid.  this.grid is
\* assigned before the null test, so a failed build leaves the grid null and
\* every other field as it was.
InitializeCall(buildFault) ==
    LET g == BuildGrid(config, buildFault)
    IN  /\ grid' = g
        /\ IF g = Null
           THEN /\ UNCHANGED <<agents, spawned, time, completed, assigned, gates,
                               seatBlocks, corridorSegs, blockToCorridorCells, chartData>>
                /\ lastResult' = [op |-> "initialize", ok |-> FALSE]
           ELSE LET blocks == GenerateSeatBlocks(config.COLS, config.NUM_BLOCKS,
                                                 config.CORRIDOR_WIDTH)
                    segs == GenerateCorridorSegments(config.COLS, blocks,
                                                     config.CORRIDOR_WIDTH)
                    gateCols == GateColumns(config)
                IN  /\ agents' = <<>>
                    /\ spawned' = 0
                    /\ time' = 0
                    /\ completed' = FALSE
                    /\ assigned' = {}
                    /\ gates' = [i \in DOMAIN gateCols |-> <<config.ROWS - 1, gateCols[i]>>]
                    /\ seatBlocks' = blocks
                    /\ corridorSegs' = segs
                    /\ blockToCorridorCells' = BlockToCorridorCells(config, segs)
                    /\ chartData' = EmptyChart
                    /\ lastResult' = [op |-> "initialize", ok |-> TRUE]
        /\ UNCHANGED config

Initialize == \E buildFault \in BOOLEAN : InitializeCall(buildFault)

\* The positions of the agents that are neither seated nor standing.
Occupied(ags) == {ags[i].pos : i \in {j \in DOMAIN ags : ~IsTerminal(ags[j])}}

\* modifiedConfig with the multiplier of the mid arrivals for every spawn.
ModifiedConfigFlat(cfg, nSpawned) ==
    [cfg EXCEPT !.BACK_PREF = Max(0, cfg.BACK_PREF * 2)]

\* modifiedConfig of a spawn: BACK_PREF times 1.5, 1.0 or 0.5 by the arrival
\* ratio spawned / NUM_AGENTS, kept in halves.
ModifiedConfig(cfg, nSpawned) ==
    LET backPrefMultiplier == IF 10 * nSpawned < 3 * cfg.NUM_AGENTS THEN 3
                              ELSE IF 10 * nSpawned < 7 * cfg.NUM_AGENTS THEN 2
                              ELSE 1
    IN  [cfg EXCEPT !.BACK_PREF = Max(0, cfg.BACK_PREF * backPrefMultiplier)]

\* AfterSpawn with spawned++ left out.
AfterSpawnNoCount(st, a, gate, cfg) ==
    [grid |-> IF a.willStand /\ st.grid # Null
              THEN [st.grid EXCEPT ![a.seat] = CELL_TYPES.STANDING] ELSE st.grid,
     agents |-> Append(st.agents, a),
     spawned |-> st.spawned,
     assigned |-> AssignedAfter(st.assigned, a, cfg),
     occupied |-> st.occupied \cup {gate},
     fault |-> a.willStand /\ st.grid = Null]

\* AfterSpawn with the reservation of a will-stand agent's destination left out.
AfterSpawnNoReserve(st, a, gate, cfg) ==
    [grid |-> st.grid,
     agents |-> Append(st.agents, a),
     spawned |-> st.spawned + 1,
     assigned |-> AssignedAfter(st.assigned, a, cfg),
     occupied |-> st.occupied \cup {gate},
     fault |-> FALSE]

\* One spawn of the gate loop: the engine fields after new Agent(...), push,
\* spawned++ and the reservation of a will-stand agent's destination.  The
\* reservation writes into the grid and faults when there is none.
AfterSpawn(st, a, gate, cfg) ==
    [grid |-> IF a.willStand /\ st.grid # Null
              THEN [st.grid EXCEPT ![a.seat] = CELL_TYPES.STANDING] ELSE st.grid,
     agents |-> Append(st.agents, a),
     spawned |-> st.spawned + 1,
     assigned |-> AssignedAfter(st.assigned, a, cfg),
     occupied |-> st.occupied \cup {gate},
     fault |-> a.willStand /\ st.grid = Null]

\* SpawnLoop without the test of the gate being occupied.
RECURSIVE SpawnLoopAnyGate(_, _, _, _, _, _)
SpawnLoopAnyGate(st, i, cfg, gs, blocks, b2c) ==
    IF i > Len(gs) \/ st.fault THEN {st}
    ELSE IF st.spawned < cfg.NUM_AGENTS
    THEN UNION {SpawnLoopAnyGate(AfterSpawn(st, a, gs[i], cfg), i + 1, cfg, gs, blocks, b2c) :
                   a \in NewAgents(st.grid, gs[i], st.assigned, blocks, b2c,
                                   ModifiedConfig(cfg, st.spawned), gs)}
    ELSE SpawnLoopAnyGate(st, i + 1, cfg, gs, blocks, b2c)

\* The gate loop from gate i on: every outcome over the draws.  A fault ends
\* the loop (control passes to the catch block).
RECURSIVE SpawnLoop(_, _, _, _, _, _)
SpawnLoop(st, i, cfg, gs, blocks, b2c) ==
    IF i > Len(gs) \/ st.fault THEN {st}
    ELSE IF st.spawned < cfg.NUM_AGENTS /\ gs[i] \notin st.occupied
    THEN UNION {SpawnLoop(AfterSpawn(st, a, gs[i], cfg), i + 1, cfg, gs, blocks, b2c) :
                   a \in NewAgents(st.grid, gs[i], st.assigned, blocks, b2c,
                                   ModifiedConfig(cfg, st.spawned), gs)}
    ELSE SpawnLoop(st, i + 1, cfg, gs, blocks, b2c)

\* AdvanceAll that stops one agent short of the end of the list.
RECURSIVE AdvanceAllButLast(_, _, _)
AdvanceAllButLast(ags, g, i) ==
    IF i >= Len(ags) THEN <<ags, g>>
    ELSE CHOOSE r \in {AdvanceAllButLast([ags EXCEPT ![i] = u[1]], u[2], i + 1) :
                           u \in {AgentUpdate(ags[i], g)}} : TRUE

\* this.agents.forEach(agent => agent.update(this.grid)), in list order: u is
\* the outcome of the i-th call, taken once.
RECURSIVE AdvanceAll(_, _, _)
AdvanceAll(ags, g, i) ==
    IF i > Len(ags) THEN <<ags, g>>
    ELSE CHOOSE r \in {AdvanceAll([ags EXCEPT ![i] = u[1]], u[2], i + 1) :
                           u \in {AgentUpdate(ags[i], g)}} : TRUE

CountSeated(ags) == Cardinality({i \in DOMAIN ags : ags[i].seated})
\* A standing count that takes the agents sent to the back rows for
\* standing from the moment they are spawned.
CountStandingWillStand(ags) == Cardinality({i \in DOMAIN ags : ags[i].willStand})

CountStanding(ags) == Cardinality({i \in DOMAIN ags : ags[i].standing})
CountMoving(ags) == Cardinality({i \in DOMAIN ags : ~IsTerminal(ags[i])})

\* IsComplete with the tick limit tested by > instead of >=.
IsCompleteLate(ags, nSpawned, t, cfg) ==
    \/ (\A i \in DOMAIN ags : ags[i].seated \/ ags[i].standing) /\ nSpawned >= cfg.NUM_AGENTS
    \/ t > cfg.MAX_TIME

\* IsComplete with the spawn budget test left out.
IsCompleteAnyBudget(ags, nSpawned, t, cfg) ==
    \/ (\A i \in DOMAIN ags : ags[i].seated \/ ags[i].standing)
    \/ t >= cfg.MAX_TIME

\* The completion test of update().
IsComplete(ags, nSpawned, t, cfg) ==
    \/ (\A i \in DOMAIN ags : IsTerminal(ags[i])) /\ nSpawned >= cfg.NUM_AGENTS
    \/ t >= cfg.MAX_TIME

\* UpdateBody whose catch block does not set the completed flag.
UpdateBodyNoCatch(st) ==
    IF st.fault
    THEN \* catch: completed = true, { completed: true, error: true }
         /\ grid' = st.grid
         /\ agents' = st.agents
         /\ spawned' = st.spawned
         /\ assigned' = st.assigned
         /\ UNCHANGED <<completed, time, chartData>>
         /\ lastResult' = [op |-> "update", completed |-> TRUE, error |-> TRUE]
    ELSE \E adv \in {AdvanceAll(st.agents, st.grid, 1)} :
         LET ags == adv[1]
             t == time + 1
             seated == CountSeated(ags)
             standing == CountStanding(ags)
             done == IsComplete(ags, st.spawned, t, config)
         IN  /\ grid' = adv[2]
             /\ agents' = ags
             /\ spawned' = st.spawned
             /\ assigned' = st.assigned
             /\ time' = t
             /\ chartData' = [time |-> Append(chartData.time, t),
                              seated |-> Append(chartData.seated, seated),
                              standing |-> Append(chartData.standing, standing)]
             /\ completed' = done
             /\ lastResult' =
                   IF done
                   THEN [op |-> "update", completed |-> TRUE,
                         seated |-> seated, standing |-> standing]
                   ELSE [op |-> "update", completed |-> FALSE,
                         seated |-> seated, standing |-> standing,
                         moving |-> CountMoving(ags)]

\* update() of an engine that is not completed, for one outcome st of the
\* gate loop.
UpdateBody(st) ==
    IF st.fault
    THEN \* catch: completed = true, { completed: true, error: true }
         /\ grid' = st.grid
         /\ agents' = st.agents
         /\ spawned' = st.spawned
         /\ assigned' = st.assigned
         /\ completed' = TRUE
         /\ UNCHANGED <<time, chartData>>
         /\ lastResult' = [op |-> "update", completed |-> TRUE, error |-> TRUE]
    ELSE \E adv \in {AdvanceAll(st.agents, st.grid, 1)} :
         LET ags == adv[1]
             t == time + 1
             seated == CountSeated(ags)
             standing == CountStanding(ags)
             done == IsComplete(ags, st.spawned, t, config)
         IN  /\ grid' = adv[2]
             /\ agents' = ags
             /\ spawned' = st.spawned
             /\ assigned' = st.assigned
             /\ time' = t
             /\ chartData' = [time |-> Append(chartData.time, t),
                              seated |-> Append(chartData.seated, seated),
                              standing |-> Append(chartData.standing, standing)]
             /\ completed' = done
             /\ lastResult' =
                   IF done
                   THEN [op |-> "update", completed |-> TRUE,
                         seated |-> seated, standing |-> standing]
                   ELSE [op |-> "update", completed |-> FALSE,
                         seated |-> seated, standing |-> standing,
                         moving |-> CountMoving(ags)]

\* Update without the test of the completed flag.
UpdateNoGuard ==
    /\ \E st \in SpawnLoop([grid |-> grid, agents |-> agents, spawned |-> spawned,
                            assigned |-> assigned, occupied |-> Occupied(agents),
                            fault |-> FALSE],
                           1, config, gates, seatBlocks, blockToCorridorCells) :
           UpdateBody(st)
    /\ UNCHANGED <<config, gates, seatBlocks, corridorSegs, blockToCorridorCells>>

\* update(): returns undefined at once when the engine is completed.
Update ==
    /\ IF completed
       THEN /\ UNCHANGED <<grid, agents, spawned, time, completed, assigned, chartData>>
            /\ lastResult' = [op |-> "update", undefined |-> TRUE]
       ELSE \E st \in SpawnLoop([grid |-> grid, agents |-> agents, spawned |-> spawned,
                                 assigned |-> assigned, occupied |-> Occupied(agents),
                                 fault |-> FALSE],
                                1, config, gates, seatBlocks, blockToCorridorCells) :
                UpdateBody(st)
    /\ UNCHANGED <<config, gates, seatBlocks, corridorSegs, blockToCorridorCells>>

\* initialize() and update() of an engine used on its own: the controller's
\* fields are not touched.
EngineInitialize == Initialize /\ UNCHANGED uiVars

EngineUpdate == Update /\ UNCHANGED uiVars

Next ==
    \/ EngineInitialize
    \/ EngineUpdate

Spec == Init /\ [][Next]_vars

\* One engine, initialized at most once and before any tick, then ticked by
\* the animation loop for as long as update() has something to do.
RunNext ==
    \/ lastResult.op = "new" /\ EngineInitialize
    \/ EngineUpdate

LiveSpec == Init /\ [][RunNext]_vars /\ WF_vars(EngineUpdate)

(***************************************************************************)
(* Properties.                                                             *)
(***************************************************************************)
AgentsAt(p, ags) == {i \in DOMAIN ags : ags[i].pos = p}
SeatedAt(p, ags) == {i \in AgentsAt(p, ags) : ags[i].seated}
StandingAt(p, ags) == {i \in AgentsAt(p, ags) : ags[i].standing}
\* The will-stand agents still on their way to p, their reserved destination.
EnRouteTo(p, ags) ==
    {i \in DOMAIN ags : ags[i].willStand /\ ~ags[i].standing /\ ags[i].seat = p}

IsUpdateResult == lastResult.op = "update" /\ "completed" \in DOMAIN lastResult
IsUpdateError == IsUpdateResult /\ "error" \in DOMAIN lastResult

\* C1: seated + standing + moving agents equal the spawned counter, and no
\* agent is both seated and standing.
C1_CountsAddUp ==
    /\ CountSeated(agents) + CountStanding(agents) + CountMoving(agents) = spawned
    /\ \A i \in DOMAIN agents : ~(agents[i].seated /\ agents[i].standing)

C1_Witness ==
    /\ lastResult.op = "update"
    /\ CountSeated(agents) >= 1
    /\ CountStanding(agents) >= 1
    /\ CountMoving(agents) >= 1

\* C2: no two terminal agents (seated or standing) report the same grid cell.
C2_NoTwoTerminalAgentsShareCell ==
    \A i, j \in DOMAIN agents :
        (i # j /\ IsTerminal(agents[i]) /\ IsTerminal(agents[j]))
            => agents[i].pos # agents[j].pos

C4_NoSeatGivenTwice ==
    config.FEATURE_ASSIGNED_SEATS =>
        \A i, j \in DOMAIN agents :
            (i # j /\ ~agents[i].willStand /\ ~agents[j].willStand)
                => agents[i].seat # agents[j].seat

\* Every seat has been given out once, and a later agent had to stand.
C4_Witness ==
    /\ config.FEATURE_ASSIGNED_SEATS
    /\ Cardinality({i \in DOMAIN agents : ~agents[i].willStand}) >= 2
    /\ \E i \in DOMAIN agents : agents[i].willStand
    /\ CountSeated(agents) >= 1

\* C5: the time counter never exceeds MAX_TIME, the engine is completed
\* whenever the counter has reached MAX_TIME, and the update() that brings
\* the counter to MAX_TIME reports completed.
C5_CompletedByMaxTime ==
    /\ time <= config.MAX_TIME
    /\ time = config.MAX_TIME => completed
    /\ (IsUpdateResult /\ time = config.MAX_TIME) => lastResult.completed

\* The tick limit cuts a run short: agents are still moving.
C5_Witness ==
    /\ IsUpdateResult
    /\ time = config.MAX_TIME
    /\ completed
    /\ CountMoving(agents) >= 1

\* C6: a fault-free update() sets the completed flag and returns
\* completed=true exactly when, after its spawns and advances, every agent is
\* terminal and spawned >= NUM_AGENTS, or time >= MAX_TIME; otherwise it
\* returns the seated, standing and moving counts and the engine stays running.
C6_CompletionTest ==
    (IsUpdateResult /\ ~IsUpdateError) =>
        LET allSettled == \A i \in DOMAIN agents : agents[i].seated \/ agents[i].standing
            done == (allSettled /\ spawned >= config.NUM_AGENTS) \/ time >= config.MAX_TIME
        IN  /\ lastResult.completed <=> done
            /\ completed <=> done
            /\ lastResult.seated = CountSeated(agents)
            /\ lastResult.standing = CountStanding(agents)
            /\ ~done => lastResult.moving = CountMoving(agents)

\* A run completed by its agents, before the tick limit.
C6_Witness ==
    /\ IsUpdateResult /\ ~IsUpdateError
    /\ lastResult.completed
    /\ time < config.MAX_TIME
    /\ spawned = config.NUM_AGENTS
    /\ grid # Null

\* C7: with a tick limit that does not cut the run short, repeated ticks of an
\* initialized engine reach Completed with seated + standing = spawned =
\* NUM_AGENTS and no agent moving.
C7_RunCompletes ==
    (grid # Null /\ config.MAX_TIME = LongMaxTime)
        ~> (/\ completed
            /\ time < config.MAX_TIME
            /\ spawned = config.NUM_AGENTS
            /\ CountSeated(agents) + CountStanding(agents) = spawned
            /\ CountMoving(agents) = 0)

C7_Witness ==
    /\ grid # Null /\ config.MAX_TIME = LongMaxTime
    /\ completed
    /\ time < config.MAX_TIME
    /\ spawned = config.NUM_AGENTS
    /\ CountSeated(agents) >= 1
    /\ CountStanding(agents) >= 1
    /\ CountMoving(agents) = 0

\* C8: update() of a completed engine changes no engine field, and the
\* completed flag is cleared only by an initialize() that succeeds.
C8_CompletedUpdateIsNoOp ==
    [][/\ (completed /\ lastResult'.op = "update") => UNCHANGED engineVars
       /\ (completed /\ ~completed') =>
             lastResult' = [op |-> "initialize", ok |-> TRUE]]_vars

\* update() has been called on a completed engine.
C8_Witness ==
    /\ completed
    /\ lastResult = [op |-> "update", undefined |-> TRUE]
    /\ time > 0

\* C9: an update() that faults (it spawns an agent into a missing grid, so
\* the reservation write raises) sets the completed flag and returns
\* completed=true with error=true.
C9_FaultCompletesWithError ==
    [][(~completed /\ grid = Null /\ lastResult'.op = "update" /\ spawned' > spawned)
          => (completed' /\ lastResult' = [op |-> "update", completed |-> TRUE,
                                           error |-> TRUE])]_vars

C9_Witness ==
    /\ IsUpdateError
    /\ completed
    /\ grid = Null
    /\ spawned >= 1

\* C10: after an initialize() that failed, update() does not increment the
\* time counter, spawn agents or append samples.
C10_FailedInitializeStopsUpdates ==
    [][(lastResult = [op |-> "initialize", ok |-> FALSE] /\ lastResult'.op = "update")
          => (time' = time /\ spawned' = spawned /\ chartData' = chartData)]_vars

\* C11: every initialize() that succeeds leaves the same engine state, whatever
\* the state it was called in: spawned and time are 0, no agents, no assigned
\* seats, no samples, completed is false, and the grid is the build of the
\* configuration, with no cell SeatedAgent or Standing.
C11_InitializeResets ==
    [][lastResult' = [op |-> "initialize", ok |-> TRUE] =>
          /\ spawned' = 0 /\ time' = 0 /\ ~completed'
          /\ agents' = <<>> /\ assigned' = {} /\ chartData' = EmptyChart
          /\ grid' = BuildGrid(config, FALSE)
          /\ \A p \in DOMAIN grid' :
                grid'[p] \notin {CELL_TYPES.SEATED_AGENT, CELL_TYPES.STANDING}]_vars

\* initialize() has just succeeded.
C11_Witness ==
    /\ lastResult = [op |-> "initialize", ok |-> TRUE]
    /\ grid = BuildGrid(config, FALSE)
    /\ spawned = 0 /\ time = 0 /\ agents = <<>>

\* C12: an update() changes the type of a cell only from Empty, Seat or
\* Corridor to Standing or SeatedAgent; a cell that is SeatedAgent or Standing,
\* and a Gate cell, keeps its type.
C12_CellsOnlySettle ==
    [][(grid # Null /\ grid' # Null /\ lastResult'.op = "update") =>
          \A p \in DOMAIN grid :
              grid'[p] # grid[p] =>
                  /\ grid[p] \in {CELL_TYPES.EMPTY, CELL_TYPES.SEAT, CELL_TYPES.CORRIDOR}
                  /\ grid'[p] \in {CELL_TYPES.STANDING, CELL_TYPES.SEATED_AGENT}]_vars

(***************************************************************************)
(* A hall narrower than its aisles: ConfigManager.set has no validator for *)
(* COLS, and SimulationEngine takes whatever config it is given.  With     *)
(* COLS = 3 the seat blocks are empty, one gate remains, and every agent   *)
(* is sent to the back rows, which hold fewer cells than there are agents. *)
(***************************************************************************)
CrowdAgents == 6

CrowdConfig ==
    [ROWS |-> ROWS, COLS |-> 3, NUM_BLOCKS |-> 2,
     CORRIDOR_WIDTH |-> CalculateCorridorWidth(COLS, 2),
     FEATURE_ASSIGNED_SEATS |-> TRUE, NUM_AGENTS |-> CrowdAgents,
     MAX_TIME |-> LongMaxTime, SOCIAL_DISTANCE |-> 3, BACK_PREF |-> 3, AISLE_PREF |-> 2]

\* The state after new SimulationEngine(CrowdConfig).
CrowdInit ==
    /\ config = CrowdConfig
    /\ grid = Null
    /\ agents = <<>>
    /\ spawned = 0
    /\ time = 0
    /\ completed = FALSE
    /\ assigned = {}
    /\ gates = <<>>
    /\ seatBlocks = <<>>
    /\ corridorSegs = <<>>
    /\ blockToCorridorCells = <<>>
    /\ chartData = EmptyChart
    /\ lastResult = [op |-> "new"]
    /\ listeners = <<>>
    /\ runHistory = <<>>
    /\ ui = InitialUI

CrowdSpec == CrowdInit /\ [][Next]_vars

BackRows == SIM_CONSTANTS.BACK_ROWS.START..SIM_CONSTANTS.BACK_ROWS.END

\* C13: the target of every agent that will stand is a cell of the back rows
\* that the initial grid marks neither Seat nor Gate, whatever the occupancy
\* of the back rows, and an agent that stands there stands at its target.
C13_StandingTargetIsFreeBackCell ==
    grid # Null =>
        \A i \in DOMAIN agents :
            agents[i].willStand =>
                /\ agents[i].seat[1] \in BackRows
                /\ agents[i].seat \in DOMAIN BuildGrid(config, FALSE)
                /\ BuildGrid(config, FALSE)[agents[i].seat]
                       \notin {CELL_TYPES.SEAT, CELL_TYPES.GATE}
                /\ agents[i].standing => agents[i].pos = agents[i].seat

\* C14: with more agents than seats to hand out, every agent that stands
\* (sent to the back rows or standing defensively) is at a cell that the
\* initial grid does not mark Seat.
C14_StandingOutsideSeatCells ==
    LET initial == BuildGrid(config, FALSE)
        seats == {p \in DOMAIN initial : initial[p] = CELL_TYPES.SEAT}
    IN  (grid # Null /\ config.NUM_AGENTS > Cardinality(seats)) =>
            \A i \in DOMAIN agents :
                agents[i].standing => agents[i].pos \notin seats

\* The path the constructor computed for agent a when it was spawned at gate.
FullPath(a, gate) == ComputeSimplePath(gate, a.corridor, a.seat, a.row0)

\* An update() call that returned counts (neither the catch block nor the
\* bare return of a completed engine).
IsCountingUpdate == lastResult'.op = "update" /\ "seated" \in DOMAIN lastResult'

\* C15 (as stated): an agent spawned in a tick is, at the end of that tick,
\* still at its gate cell with its whole path unconsumed.
C15_SpawnedAgentStaysAtGate ==
    [][IsCountingUpdate =>
          \A i \in (Len(agents) + 1)..Len(agents') :
              \E k \in DOMAIN gates :
                  /\ agents'[i].pos = gates[k]
                  /\ agents'[i].path = FullPath(agents'[i], gates[k])]_vars

\* C15 (amended): within a tick the spawns come first, then every agent of
\* the list, the ones spawned in this tick included, gets exactly one
\* Agent.update call, then the sample and the completion test are taken from
\* the advanced agents.  An agent spawned in a tick therefore ends the tick
\* on the first cell of its path with the rest of the path unconsumed (or
\* settled at its gate when its path is empty).
C15_OneAdvancePerAgentPerTick ==
    [][IsCountingUpdate =>
          /\ \A i \in (Len(agents) + 1)..Len(agents') :
                \E k \in DOMAIN gates :
                    LET a == agents'[i]
                        full == FullPath(a, gates[k])
                    IN  IF full = <<>>
                        THEN a.pos = gates[k] /\ a.path = <<>> /\ IsTerminal(a)
                        ELSE a.pos = full[1] /\ a.path = Tail(full) /\ ~IsTerminal(a)
          /\ \A i \in DOMAIN agents :
                IF IsTerminal(agents[i]) THEN agents'[i] = agents[i]
                ELSE IF agents[i].path = <<>>
                THEN IsTerminal(agents'[i]) /\ agents'[i].pos = agents[i].pos
                ELSE /\ agents'[i].pos = Head(agents[i].path)
                     /\ agents'[i].path = Tail(agents[i].path)
                     /\ ~IsTerminal(agents'[i])
          /\ chartData'.seated[Len(chartData'.seated)] = CountSeated(agents')
          /\ chartData'.standing[Len(chartData'.standing)] = CountStanding(agents')
          /\ completed' = IsComplete(agents', spawned', time', config)]_vars

\* The end of the first tick: every agent of the list was spawned in this
\* tick and has left its gate by one cell.
C15_Witness ==
    /\ lastResult.op = "update"
    /\ time = 1
    /\ Len(agents) >= 1
    /\ \A i \in DOMAIN agents :
          /\ agents[i].pos \notin SeqToSet(gates)
          /\ agents[i].pos = FullPath(agents[i], gates[i])[1]

(***************************************************************************)
(* ConfigManager at the source's own values: set, validate, the listener   *)
(* set and notifyListeners.  listeners is the Set of callbacks in          *)
(* insertion order, the order forEach visits them in.                      *)
(***************************************************************************)
\* this.config after the constructor.
DefaultConfig ==
    [ROWS |-> 20, COLS |-> 68, NUM_BLOCKS |-> 4,
     FEATURE_ASSIGNED_SEATS |-> TRUE, FEATURE_COLOR_BY_BLOCK |-> TRUE,
     NUM_AGENTS |-> 384, SPEED |-> 20, MAX_TIME |-> 500,
     SOCIAL_DISTANCE |-> 3, BACK_PREF |-> 3, AISLE_PREF |-> 2,
     CORRIDOR_WIDTH |-> CalculateCorridorWidth(68, 4)]

\* The validations table of validate(): key |-> <<least, greatest>>.
Validations ==
    [NUM_AGENTS |-> <<50, 500>>, SPEED |-> <<10, 500>>, MAX_TIME |-> <<200, 1000>>,
     NUM_BLOCKS |-> <<2, 6>>, SOCIAL_DISTANCE |-> <<0, 5>>, BACK_PREF |-> <<0, 5>>,
     AISLE_PREF |-> <<0, 5>>]

\* Validate without the test of the least value.
ValidateNoLeast(key, value) ==
    key \notin DOMAIN Validations \/ value <= Validations[key][2]

\* validate(key, value): !validator || validator(value).
Validate(key, value) ==
    \/ key \notin DOMAIN Validations
    \/ value >= Validations[key][1] /\ value <= Validations[key][2]

\* The callbacks a caller registers; the second one throws when invoked.
Callbacks == {"logger", "thrower"}

Throws(callback) == callback = "thrower"

\* NotifyListeners without the try/catch around the callback: the first
\* callback that throws ends the forEach and the exception leaves the method.
RECURSIVE NotifyListenersNoCatch(_, _, _, _, _)
NotifyListenersNoCatch(ls, key, value, cfg, i) ==
    IF i > Len(ls) THEN [calls |-> <<>>, raised |-> FALSE]
    ELSE LET call == [callback |-> ls[i], key |-> key, value |-> value,
                      stored |-> cfg[key], width |-> cfg.CORRIDOR_WIDTH,
                      threw |-> Throws(ls[i])]
         IN  IF Throws(ls[i]) THEN [calls |-> <<call>>, raised |-> TRUE]
             ELSE LET rest == NotifyListenersNoCatch(ls, key, value, cfg, i + 1)
                  IN  [calls |-> <<call>> \o rest.calls, raised |-> rest.raised]

\* notifyListeners(key, value) from the i-th listener on: the calls made, each
\* with the configuration the callback can read at that moment, and whether an
\* exception leaves the method.  A callback that throws is caught and logged.
RECURSIVE NotifyListeners(_, _, _, _, _)
NotifyListeners(ls, key, value, cfg, i) ==
    IF i > Len(ls) THEN [calls |-> <<>>, raised |-> FALSE]
    ELSE LET call == [callback |-> ls[i], key |-> key, value |-> value,
                      stored |-> cfg[key], width |-> cfg.CORRIDOR_WIDTH,
                      threw |-> Throws(ls[i])]
             rest == NotifyListeners(ls, key, value, cfg, i + 1)
         IN  [calls |-> <<call>> \o rest.calls, raised |-> rest.raised]

\* set(key, value) without the recalculation of the corridor width.
SetNoRecalculation(key, value) ==
    /\ IF Validate(key, value)
       THEN LET stored == [config EXCEPT ![key] = value]
                notified == NotifyListeners(listeners, key, value, stored, 1)
            IN  /\ config' = stored
                /\ lastResult' = [op |-> "set", key |-> key, value |-> value,
                                  calls |-> notified.calls, raised |-> notified.raised]
       ELSE /\ config' = config
            /\ lastResult' = [op |-> "set", key |-> key, value |-> value,
                              calls |-> <<>>, raised |-> FALSE]
    /\ UNCHANGED <<listeners, runHistory, ui, grid, agents, spawned, time, completed,
                   assigned, gates, seatBlocks, corridorSegs, blockToCorridorCells,
                   chartData>>

\* set(key, value).
Set(key, value) ==
    /\ IF Validate(key, value)
       THEN LET stored == [config EXCEPT ![key] = value]
                recalculated ==
                    IF key = "NUM_BLOCKS"
                    THEN [stored EXCEPT !.CORRIDOR_WIDTH =
                              CalculateCorridorWidth(stored.COLS, stored.NUM_BLOCKS)]
                    ELSE stored
                notified == NotifyListeners(listeners, key, value, recalculated, 1)
            IN  /\ config' = recalculated
                /\ lastResult' = [op |-> "set", key |-> key, value |-> value,
                                  calls |-> notified.calls, raised |-> notified.raised]
       ELSE /\ config' = config
            /\ lastResult' = [op |-> "set", key |-> key, value |-> value,
                              calls |-> <<>>, raised |-> FALSE]
    /\ UNCHANGED <<listeners, runHistory, ui, grid, agents, spawned, time, completed,
                   assigned, gates, seatBlocks, corridorSegs, blockToCorridorCells,
                   chartData>>

\* addListener(callback): Set.add, a no-op for a callback already present.
AddListener(callback) ==
    /\ listeners' = IF callback \in SeqToSet(listeners) THEN listeners
                    ELSE Append(listeners, callback)
    /\ lastResult' = [op |-> "addListener", callback |-> callback]
    /\ UNCHANGED <<config, runHistory, ui, grid, agents, spawned, time, completed,
                   assigned, gates, seatBlocks, corridorSegs, blockToCorridorCells,
                   chartData>>

\* removeListener(callback): Set.delete.
RemoveListener(callback) ==
    /\ listeners' = SelectSeq(listeners, LAMBDA l : l # callback)
    /\ lastResult' = [op |-> "removeListener", callback |-> callback]
    /\ UNCHANGED <<config, runHistory, ui, grid, agents, spawned, time, completed,
                   assigned, gates, seatBlocks, corridorSegs, blockToCorridorCells,
                   chartData>>

\* The values a caller passes for a key: both ends of the validated range and
\* the integers just outside it; both values of a feature flag.
SetValues(key) ==
    IF key \in DOMAIN Validations
    THEN {Validations[key][1] - 1, Validations[key][1],
          Validations[key][2], Validations[key][2] + 1}
    ELSE BOOLEAN

SetKeys == DOMAIN Validations \cup {"FEATURE_ASSIGNED_SEATS"}

\* The state after new ConfigManager(), with no engine built yet.
CfgInit ==
    /\ config = DefaultConfig
    /\ listeners = <<>>
    /\ lastResult = [op |-> "new"]
    /\ runHistory = <<>>
    /\ ui = InitialUI
    /\ grid = Null
    /\ agents = <<>>
    /\ spawned = 0
    /\ time = 0
    /\ completed = FALSE
    /\ assigned = {}
    /\ gates = <<>>
    /\ seatBlocks = <<>>
    /\ corridorSegs = <<>>
    /\ blockToCorridorCells = <<>>
    /\ chartData = EmptyChart

CfgNext ==
    \/ \E key \in SetKeys : \E value \in SetValues(key) : Set(key, value)
    \/ \E callback \in Callbacks : AddListener(callback)
    \/ \E callback \in Callbacks : RemoveListener(callback)

CfgSpec == CfgInit /\ [][CfgNext]_vars

\* Every validated key of the configuration holds a value of its range.
ValidatedKeysInRange ==
    \A key \in DOMAIN Validations :
        config[key] >= Validations[key][1] /\ config[key] <= Validations[key][2]

\* A set call whose value is outside the validated range of its key.
IsOutOfRangeSet(result) ==
    /\ result.op = "set"
    /\ result.key \in DOMAIN Validations
    /\ \/ result.value < Validations[result.key][1]
       \/ result.value > Validations[result.key][2]

\* C16: a set call whose value is outside the range of its key leaves the
\* whole configuration (the derived CORRIDOR_WIDTH included) and the listener
\* set as they were, invokes no listener and raises nothing; so every
\* validated key stays within its range.
C16_OutOfRangeSetIsIgnored ==
    /\ []ValidatedKeysInRange
    /\ [][IsOutOfRangeSet(lastResult') =>
             /\ config' = config
             /\ listeners' = listeners
             /\ lastResult'.calls = <<>>
             /\ ~lastResult'.raised]_vars

\* A rejected set call made while listeners are registered and the key holds
\* a value other than its default.
C16_Witness ==
    /\ IsOutOfRangeSet(lastResult)
    /\ lastResult.calls = <<>>
    /\ Len(listeners) = 2
    /\ config[lastResult.key] # DefaultConfig[lastResult.key]
    /\ config[lastResult.key] # lastResult.value

\* C17: an accepted set call invokes every registered listener exactly once,
\* in order, with (key, value), after the value and the recomputed corridor
\* width are stored; a listener that throws neither stops the listeners after
\* it, nor leaves set(), nor undoes the stored value.
C17_AcceptedSetNotifiesAll ==
    [][(lastResult'.op = "set" /\ ~IsOutOfRangeSet(lastResult')) =>
          LET key == lastResult'.key
              value == lastResult'.value
              calls == lastResult'.calls
          IN  /\ config'[key] = value
              /\ config'.CORRIDOR_WIDTH =
                     IF key = "NUM_BLOCKS" THEN CalculateCorridorWidth(config.COLS, value)
                     ELSE config.CORRIDOR_WIDTH
              /\ \A k \in DOMAIN config \ {key, "CORRIDOR_WIDTH"} : config'[k] = config[k]
              /\ Len(calls) = Len(listeners)
              /\ \A i \in DOMAIN calls :
                    /\ calls[i].callback = listeners[i]
                    /\ calls[i].key = key
                    /\ calls[i].value = value
                    /\ calls[i].stored = value
                    /\ calls[i].width = config'.CORRIDOR_WIDTH
              /\ ~lastResult'.raised
              /\ listeners' = listeners]_vars

\* An accepted set call whose first listener threw and whose second listener
\* was still invoked.
C17_Witness ==
    /\ lastResult.op = "set"
    /\ Len(lastResult.calls) = 2
    /\ lastResult.calls[1].threw
    /\ lastResult.calls[2].callback = "logger"
    /\ config[lastResult.key] = lastResult.value
    /\ ~lastResult.raised

(***************************************************************************)
(* Utils.weightedChoice on its own: the arguments and the draw are chosen  *)
(* first, then the function is applied to them.                            *)
(***************************************************************************)
\* Longest item list and largest weight of the calls checked.
MaxItems == 3
MaxWeight == 2

ItemNames == <<"a", "b", "c", "d", "e">>

\* The weight lists of the calls checked.
WeightLists == UNION {[1..n -> 0..MaxWeight] : n \in 1..MaxItems}

\* The arguments of a call and the value of Math.random() * total: a value of
\* [0, total), which is 0 when the total is 0.
WeightedChoiceArgs ==
    {[op |-> "args", items |-> SubSeq(ItemNames, 1, Len(ws)), weights |-> ws, rnd |-> rnd] :
        ws \in WeightLists, rnd \in 0..Max(0, DrawScale * MaxItems * MaxWeight - 1)}

UtilInit ==
    /\ lastResult \in {a \in WeightedChoiceArgs :
                          a.rnd \in Draws(SumSeq(a.weights)) \cup
                                    (IF SumSeq(a.weights) = 0 THEN {0} ELSE {})}
    /\ config = DefaultConfig
    /\ listeners = <<>>
    /\ runHistory = <<>>
    /\ ui = InitialUI
    /\ grid = Null
    /\ agents = <<>>
    /\ spawned = 0
    /\ time = 0
    /\ completed = FALSE
    /\ assigned = {}
    /\ gates = <<>>
    /\ seatBlocks = <<>>
    /\ corridorSegs = <<>>
    /\ blockToCorridorCells = <<>>
    /\ chartData = EmptyChart

\* Utils.weightedChoice(items, weights) with the draw lastResult.rnd.
WeightedChoiceCall ==
    /\ lastResult.op = "args"
    /\ lastResult' = [op |-> "weightedChoice", items |-> lastResult.items,
                      weights |-> lastResult.weights, rnd |-> lastResult.rnd,
                      result |-> WeightedChoice(lastResult.items, lastResult.weights,
                                                lastResult.rnd)]
    /\ UNCHANGED <<config, listeners, runHistory, ui, grid, agents, spawned, time,
                   completed, assigned, gates, seatBlocks, corridorSegs,
                   blockToCorridorCells, chartData>>

UtilNext == WeightedChoiceCall

UtilSpec == UtilInit /\ [][UtilNext]_vars

\* The positions of the nonzero weights of a list.
NonzeroAt(weights) == {i \in DOMAIN weights : weights[i] # 0}

\* C19: with a single nonzero weight, weightedChoice returns the item that
\* carries it, wherever it is in the list and whatever the draw in
\* [0, total), a draw of exactly 0 included.
C19_SingleNonzeroWeightWins ==
    (lastResult.op = "weightedChoice" /\ Cardinality(NonzeroAt(lastResult.weights)) = 1) =>
        \A i \in NonzeroAt(lastResult.weights) : lastResult.result = lastResult.items[i]

\* C20: with weights that are all zero, weightedChoice returns items[0].
C20_AllZeroReturnsFirst ==
    (lastResult.op = "weightedChoice" /\ NonzeroAt(lastResult.weights) = {}) =>
        lastResult.result = lastResult.items[1]

\* A call with three items, all of weight zero, that returned the first one.
C20_Witness ==
    /\ lastResult.op = "weightedChoice"
    /\ Len(lastResult.items) = 3
    /\ NonzeroAt(lastResult.weights) = {}
    /\ lastResult.result = "a"

(***************************************************************************)
(* UIController: build, start, pause, reset, restart, animate and the run  *)
(* history.  The methods are modelled by the tests their code makes; the   *)
(* engine is the one of the sections above, ticked by animate().           *)
(***************************************************************************)
\* Completed runs after which no further tick is checked.
MaxRuns == 12

\* The length the run history is cut back to.
HistoryLimit == 10

\* The configuration the page runs with: the scaled hall, one attendee and a
\* budget of two ticks, so that a run is a few steps long and the history,
\* which keeps its real length, can fill and overflow.
UIConfig ==
    [ROWS |-> ROWS, COLS |-> COLS, NUM_BLOCKS |-> 2,
     CORRIDOR_WIDTH |-> CalculateCorridorWidth(COLS, 2),
     FEATURE_ASSIGNED_SEATS |-> TRUE, NUM_AGENTS |-> 1, SPEED |-> 20,
     MAX_TIME |-> 2, SOCIAL_DISTANCE |-> 3, BACK_PREF |-> 3, AISLE_PREF |-> 2]

\* (n / d).toFixed(digits) as an integer count of the last digit kept,
\* rounded to the nearest.
ToFixed(n, d, scale) == (2 * scale * n + d) \div (2 * d)

\* The entry addToRunHistory builds from the result of the last update(), the
\* engine's counters and the configuration; now is the reading of new Date().
HistoryEntry(result, nSpawned, t, cfg, now) ==
    [timestamp |-> now,
     time |-> t,
     seated |-> result.seated,
     standing |-> result.standing,
     seatedPercent |-> IF nSpawned > 0 THEN ToFixed(100 * result.seated, nSpawned, 10) ELSE 0,
     seatingSpeed |-> IF t > 0 THEN ToFixed(result.seated, t, 100) ELSE 0,
     config |-> [agents |-> cfg.NUM_AGENTS, blocks |-> cfg.NUM_BLOCKS,
                 socialDistance |-> cfg.SOCIAL_DISTANCE, backPref |-> cfg.BACK_PREF,
                 speed |-> cfg.SPEED]]

\* AddToRunHistory that never drops an entry.
AddToRunHistoryNoPop(history, entry) == <<entry>> \o history

\* addToRunHistory: unshift, then pop when the list is longer than the limit.
AddToRunHistory(history, entry) ==
    LET unshifted == <<entry>> \o history
    IN  IF Len(unshifted) > HistoryLimit
        THEN SubSeq(unshifted, 1, Len(unshifted) - 1)
        ELSE unshifted

\* this.simulation = new SimulationEngine(config); this.simulation.initialize()
BuildEngine(buildFault) ==
    IF buildFault
    THEN /\ grid' = Null
         /\ agents' = <<>>
         /\ spawned' = 0
         /\ time' = 0
         /\ completed' = FALSE
         /\ assigned' = {}
         /\ gates' = <<>>
         /\ seatBlocks' = <<>>
         /\ corridorSegs' = <<>>
         /\ blockToCorridorCells' = <<>>
         /\ chartData' = EmptyChart
         /\ lastResult' = [op |-> "initialize", ok |-> FALSE]
         /\ UNCHANGED config
    ELSE InitializeCall(FALSE)

\* build()
UIBuild(buildFault) ==
    /\ ~ui.inStart
    /\ BuildEngine(buildFault)
    /\ ui' = [ui EXCEPT !.hasSimulation = TRUE,
                        !.isBuilt = IF buildFault THEN @ ELSE TRUE]
    /\ UNCHANGED <<listeners, runHistory>>

\* start(), up to its call of animate()
UIStart(buildFault) ==
    /\ ~ui.inStart
    /\ IF ui.isBuilt
       THEN /\ UNCHANGED <<config, engineVars, lastResult>>
            /\ ui' = IF ~ui.isRunning /\ ui.hasSimulation
                     THEN [ui EXCEPT !.isRunning = TRUE, !.inStart = TRUE]
                     ELSE ui
       ELSE /\ BuildEngine(buildFault)
            /\ ui' = IF ~ui.isRunning
                     THEN [ui EXCEPT !.hasSimulation = TRUE, !.isBuilt = ~buildFault,
                                     !.isRunning = TRUE, !.inStart = TRUE]
                     ELSE [ui EXCEPT !.hasSimulation = TRUE, !.isBuilt = ~buildFault]
    /\ UNCHANGED <<listeners, runHistory>>

\* pause() that forgets the timeout without clearing it.
UIPauseKeepsTimeout ==
    /\ ~ui.inStart
    /\ ui' = [ui EXCEPT !.isRunning = FALSE, !.timer = FALSE]
    /\ UNCHANGED <<config, engineVars, lastResult, listeners, runHistory>>

\* pause()
UIPause ==
    /\ ~ui.inStart
    /\ ui' = [ui EXCEPT !.isRunning = FALSE, !.timer = FALSE,
                        !.pending = IF ui.timer THEN @ - 1 ELSE @]
    /\ UNCHANGED <<config, engineVars, lastResult, listeners, runHistory>>

\* reset()
UIReset ==
    /\ ~ui.inStart
    /\ ui' = [ui EXCEPT !.isRunning = FALSE, !.timer = FALSE,
                        !.pending = IF ui.timer THEN @ - 1 ELSE @,
                        !.hasSimulation = FALSE, !.isBuilt = FALSE]
    /\ grid' = Null
    /\ agents' = <<>>
    /\ spawned' = 0
    /\ time' = 0
    /\ completed' = FALSE
    /\ assigned' = {}
    /\ gates' = <<>>
    /\ seatBlocks' = <<>>
    /\ corridorSegs' = <<>>
    /\ blockToCorridorCells' = <<>>
    /\ chartData' = EmptyChart
    /\ lastResult' = [op |-> "new"]
    /\ UNCHANGED <<config, listeners, runHistory>>

\* restart(), up to the call of animate() made by its start()
UIRestart(buildFault) ==
    /\ ~ui.inStart
    /\ IF ~ui.isBuilt
       THEN UNCHANGED <<config, engineVars, lastResult, ui>>
       ELSE /\ BuildEngine(buildFault)
            /\ ui' = IF buildFault
                     THEN [ui EXCEPT !.isRunning = FALSE, !.timer = FALSE,
                                     !.pending = IF ui.timer THEN @ - 1 ELSE @]
                     ELSE [ui EXCEPT !.isRunning = TRUE, !.timer = FALSE, !.inStart = TRUE,
                                     !.pending = IF ui.timer THEN @ - 1 ELSE @]
    /\ UNCHANGED <<listeners, runHistory>>

\* The timeouts still pending inside a call of animate(): the call made by
\* start() fires none, the call made by a timeout has used that timeout up.
PendingAfterFiring == IF ui.inStart THEN ui.pending ELSE ui.pending - 1

\* Whether animationId refers to a pending timeout inside a call of
\* animate(): the timeout that made the call is the one it referred to.
HeldTimer == ui.inStart /\ ui.timer

\* animate(), called by start() or by the timer it set.  fault is a runtime
\* fault inside the try block of update(), before it changes anything.  A
\* completed engine returns undefined, and reading result.completed throws
\* into animate()'s catch block.
UIAnimate(fault) ==
    /\ ui.inStart \/ ui.pending > 0
    /\ ui.completions < MaxRuns
    /\ IF ~ui.isRunning \/ ~ui.hasSimulation
       THEN /\ UNCHANGED <<config, engineVars, lastResult, runHistory>>
            /\ ui' = [ui EXCEPT !.inStart = FALSE, !.timer = HeldTimer,
                          !.pending = PendingAfterFiring]
       ELSE /\ IF fault /\ ~completed
               THEN /\ UpdateBody([grid |-> grid, agents |-> agents, spawned |-> spawned,
                                   assigned |-> assigned, occupied |-> Occupied(agents),
                                   fault |-> TRUE])
                    /\ UNCHANGED <<config, gates, seatBlocks, corridorSegs,
                                   blockToCorridorCells>>
               ELSE Update
            /\ IF "undefined" \in DOMAIN lastResult'
               THEN /\ ui' = [ui EXCEPT !.isRunning = FALSE, !.timer = FALSE,
                                         !.pending = IF HeldTimer THEN PendingAfterFiring - 1
                                                     ELSE PendingAfterFiring,
                                        !.inStart = FALSE]
                    /\ UNCHANGED runHistory
               ELSE IF lastResult'.completed
               THEN IF "error" \in DOMAIN lastResult'
                    THEN /\ ui' = [ui EXCEPT !.isRunning = FALSE, !.timer = FALSE,
                                              !.pending = IF HeldTimer THEN PendingAfterFiring - 1
                                                          ELSE PendingAfterFiring,
                                             !.inStart = FALSE]
                         /\ UNCHANGED runHistory
                    ELSE /\ runHistory' =
                               AddToRunHistory(runHistory,
                                   HistoryEntry(lastResult', spawned', time', config,
                                                ui.completions + 1))
                         /\ ui' = [ui EXCEPT !.isRunning = FALSE, !.timer = FALSE,
                                              !.pending = IF HeldTimer THEN PendingAfterFiring - 1
                                                          ELSE PendingAfterFiring,
                                             !.inStart = FALSE,
                                             !.completions = @ + 1]
               ELSE /\ ui' = [ui EXCEPT !.timer = TRUE, !.inStart = FALSE,
                                   !.pending = PendingAfterFiring + 1]
                    /\ UNCHANGED runHistory
    /\ UNCHANGED listeners

\* The page after DOMContentLoaded.
UIInit ==
    /\ config = UIConfig
    /\ grid = Null
    /\ agents = <<>>
    /\ spawned = 0
    /\ time = 0
    /\ completed = FALSE
    /\ assigned = {}
    /\ gates = <<>>
    /\ seatBlocks = <<>>
    /\ corridorSegs = <<>>
    /\ blockToCorridorCells = <<>>
    /\ chartData = EmptyChart
    /\ lastResult = [op |-> "new"]
    /\ listeners = <<>>
    /\ runHistory = <<>>
    /\ ui = InitialUI

UINext ==
    \/ \E buildFault \in BOOLEAN : UIBuild(buildFault)
    \/ \E buildFault \in BOOLEAN : UIStart(buildFault)
    \/ UIPause
    \/ UIReset
    \/ \E buildFault \in BOOLEAN : UIRestart(buildFault)
    \/ \E fault \in BOOLEAN : UIAnimate(fault)

UISpec == UIInit /\ [][UINext]_vars

\* The run history is within its limit and ordered newest first.
HistoryBoundedNewestFirst ==
    /\ Len(runHistory) <= HistoryLimit
    /\ \A i, j \in DOMAIN runHistory :
          i < j => runHistory[i].timestamp > runHistory[j].timestamp

\* The step in which the engine's run completes.
RunCompletes == ~completed /\ completed'

\* C18: the run history never holds more than 10 entries and is ordered
\* newest first; a run that completes without error puts exactly one entry in
\* front of the others, dropping the oldest when that makes eleven; a run
\* that completes with the error flag, and every other step, leaves the
\* history as it is.
C18_HistoryBoundedNewestFirst ==
    /\ []HistoryBoundedNewestFirst
    /\ [][IF RunCompletes /\ "error" \notin DOMAIN lastResult'
          THEN /\ Len(runHistory') = Min(Len(runHistory) + 1, HistoryLimit)
               /\ runHistory'[1].time = time'
               /\ runHistory'[1].seated = lastResult'.seated
               /\ runHistory'[1].standing = lastResult'.standing
               /\ \A i \in 2..Len(runHistory') : runHistory'[i] = runHistory[i - 1]
          ELSE runHistory' = runHistory]_vars

\* The history after its eleventh entry: ten entries, the first run gone, and
\* the engine's last run ended by a fault without adding an entry.
C18_Witness ==
    /\ Len(runHistory) = HistoryLimit
    /\ runHistory[1].timestamp = HistoryLimit + 1
    /\ runHistory[HistoryLimit].timestamp = 2
    /\ IsUpdateError
    /\ completed

(***************************************************************************)
(* GridBuilder on its own, with the source's 68 columns (and a hall of 12  *)
(* columns, which ConfigManager.set accepts, for contrast): the layout     *)
(* parameters are chosen first, then each function is applied to them.     *)
(***************************************************************************)
HallConfigs ==
    {[ROWS |-> ROWS, COLS |-> cols, NUM_BLOCKS |-> numBlocks,
      CORRIDOR_WIDTH |-> corridorWidth] :
        cols \in {12, 68}, numBlocks \in 2..6, corridorWidth \in 2..6}

GridInit ==
    /\ config \in HallConfigs
    /\ lastResult = [op |-> "new"]
    /\ listeners = <<>>
    /\ runHistory = <<>>
    /\ ui = InitialUI
    /\ grid = Null
    /\ agents = <<>>
    /\ spawned = 0
    /\ time = 0
    /\ completed = FALSE
    /\ assigned = {}
    /\ gates = <<>>
    /\ seatBlocks = <<>>
    /\ corridorSegs = <<>>
    /\ blockToCorridorCells = <<>>
    /\ chartData = EmptyChart

\* GridBuilder.generateSeatBlocks(COLS, NUM_BLOCKS, CORRIDOR_WIDTH)
GenerateSeatBlocksCall ==
    /\ lastResult' = [op |-> "generateSeatBlocks",
                      blocks |-> GenerateSeatBlocks(config.COLS, config.NUM_BLOCKS,
                                                    config.CORRIDOR_WIDTH)]
    /\ UNCHANGED <<config, engineVars, uiVars>>

\* GridBuilder.generateCorridorSegments(COLS, seatBlocks, CORRIDOR_WIDTH)
GenerateCorridorSegmentsCall ==
    /\ lastResult' = [op |-> "generateCorridorSegments",
                      segments |->
                          GenerateCorridorSegments(config.COLS,
                              GenerateSeatBlocks(config.COLS, config.NUM_BLOCKS,
                                                 config.CORRIDOR_WIDTH),
                              config.CORRIDOR_WIDTH)]
    /\ UNCHANGED <<config, engineVars, uiVars>>

\* GridBuilder.buildGrid(config)
BuildGridCall ==
    /\ lastResult' = [op |-> "buildGrid", grid |-> BuildGrid(config, FALSE)]
    /\ UNCHANGED <<config, engineVars, uiVars>>

GridNext ==
    \/ GenerateSeatBlocksCall
    \/ GenerateCorridorSegmentsCall
    \/ BuildGridCall

GridSpec == GridInit /\ [][GridNext]_vars

\* floor((COLS - (NUM_BLOCKS + 1) * CORRIDOR_WIDTH) / NUM_BLOCKS)
BlockWidth(cfg) == (cfg.COLS - (cfg.NUM_BLOCKS + 1) * cfg.CORRIDOR_WIDTH) \div cfg.NUM_BLOCKS

\* C21: for 68 columns, 2..6 blocks and aisles 2..6 wide, generateSeatBlocks
\* returns NUM_BLOCKS column ranges, all of the width
\* floor((COLS - (NUM_BLOCKS+1)*CORRIDOR_WIDTH)/NUM_BLOCKS), which is at least
\* 1, in strict left-to-right order without overlap, each CORRIDOR_WIDTH
\* columns after the one before it, and all within [0, COLS).
C21_SeatBlocksLayout ==
    (lastResult.op = "generateSeatBlocks" /\ config.COLS = 68) =>
        LET blocks == lastResult.blocks
        IN  /\ DOMAIN blocks = 0..(config.NUM_BLOCKS - 1)
            /\ BlockWidth(config) >= 1
            /\ \A i \in DOMAIN blocks :
                  /\ blocks[i][2] - blocks[i][1] + 1 = BlockWidth(config)
                  /\ 0 <= blocks[i][1]
                  /\ blocks[i][2] < config.COLS
            /\ \A i \in DOMAIN blocks \ {0} :
                  blocks[i][1] - blocks[i - 1][2] - 1 = config.CORRIDOR_WIDTH
            /\ \A i, j \in DOMAIN blocks : i < j => blocks[i][2] < blocks[j][1]

\* The tightest layout: six blocks and aisles six wide.
C21_Witness ==
    /\ lastResult.op = "generateSeatBlocks"
    /\ config.COLS = 68 /\ config.NUM_BLOCKS = 6 /\ config.CORRIDOR_WIDTH = 6
    /\ lastResult.blocks[0] = <<6, 9>>
    /\ lastResult.blocks[5] = <<56, 59>>

SeatBand == SIM_CONSTANTS.SEAT_ROWS.START..(SIM_CONSTANTS.SEAT_ROWS.END - 1)

\* C22: in the grid buildGrid returns, a cell is Seat exactly when its row is
\* in the seat band and its column in a block, every Seat cell is in exactly
\* one block, no column of a corridor segment and no gate cell holds a Seat,
\* and there are NUM_BLOCKS * blockWidth * (height of the band) Seat cells.
C22_SeatCellsAreTheBlocks ==
    (lastResult.op = "buildGrid" /\ config.COLS = 68) =>
        LET g == lastResult.grid
            blocks == GenerateSeatBlocks(config.COLS, config.NUM_BLOCKS, config.CORRIDOR_WIDTH)
            segs == GenerateCorridorSegments(config.COLS, blocks, config.CORRIDOR_WIDTH)
            blocksOf(c) == {b \in DOMAIN blocks : blocks[b][1] <= c /\ c <= blocks[b][2]}
            seats == {p \in DOMAIN g : g[p] = CELL_TYPES.SEAT}
        IN  /\ \A p \in DOMAIN g :
                  p \in seats <=> (p[1] \in SeatBand /\ blocksOf(p[2]) # {})
            /\ \A p \in seats : Cardinality(blocksOf(p[2])) = 1
            /\ \A k \in DOMAIN segs : \A p \in seats : p[2] \notin SeqToSet(segs[k])
            /\ \A p \in seats :
                  ~(p[1] = config.ROWS - 1 /\ p[2] \in SeqToSet(GateColumns(config)))
            /\ Cardinality(seats) =
                   config.NUM_BLOCKS * BlockWidth(config) * Cardinality(SeatBand)

\* The grid of the default layout: four blocks of 14 columns, aisles of 2.
C22_Witness ==
    /\ lastResult.op = "buildGrid"
    /\ config.COLS = 68 /\ config.NUM_BLOCKS = 4 /\ config.CORRIDOR_WIDTH = 2
    /\ Cardinality({p \in DOMAIN lastResult.grid : lastResult.grid[p] = CELL_TYPES.SEAT})
           = 4 * 14 * Cardinality(SeatBand)

(***************************************************************************)
(* A hall of six columns: no seats, both gates, every agent sent to the    *)
(* back rows along the gate row, so that an agent walking from the second  *)
(* gate is on the first gate when a later tick starts.                     *)
(***************************************************************************)
GateAgents == 7

GateConfig == [CrowdConfig EXCEPT !.COLS = 6, !.NUM_AGENTS = GateAgents, !.MAX_TIME = 4]

\* The state after new SimulationEngine(GateConfig).
GateInit ==
    /\ config = GateConfig
    /\ grid = Null
    /\ agents = <<>>
    /\ spawned = 0
    /\ time = 0
    /\ completed = FALSE
    /\ assigned = {}
    /\ gates = <<>>
    /\ seatBlocks = <<>>
    /\ corridorSegs = <<>>
    /\ blockToCorridorCells = <<>>
    /\ chartData = EmptyChart
    /\ lastResult = [op |-> "new"]
    /\ listeners = <<>>
    /\ runHistory = <<>>
    /\ ui = InitialUI

GateSpec == GateInit /\ [][RunNext]_vars

\* The gates no moving agent is on.
FreeGates == {k \in DOMAIN gates : gates[k] \notin Occupied(agents)}

\* Agent a is what one Agent.update makes of an agent built at gate.
OneStepFrom(a, gate) ==
    LET full == FullPath(a, gate)
    IN  IF full = <<>> THEN a.pos = gate /\ a.path = <<>>
        ELSE a.pos = full[1] /\ a.path = Tail(full)

\* C24: a tick spawns at most one agent per gate, only at gates that no
\* moving agent is on when the tick starts and only while spawned is below
\* NUM_AGENTS; spawned never exceeds NUM_AGENTS and is the number of agents.
C24_SpawnPerFreeGateWithinBudget ==
    /\ [](spawned = Len(agents) /\ spawned <= config.NUM_AGENTS)
    /\ [][lastResult'.op = "update" =>
             LET new == (Len(agents) + 1)..Len(agents')
                 budget == Max(0, config.NUM_AGENTS - spawned)
             IN  /\ spawned' - spawned = Cardinality(new)
                 /\ Cardinality(new) <= Min(Cardinality(FreeGates), budget)
                 /\ IsCountingUpdate =>
                       /\ Cardinality(new) = Min(Cardinality(FreeGates), budget)
                       /\ \A i \in new :
                             \E k \in FreeGates : OneStepFrom(agents'[i], gates[k])]_vars

\* The fourth tick of a run that spawned two agents in each tick before it:
\* the one agent left to spawn entered by the second gate, the first gate
\* having a moving agent on it.
C24_Witness ==
    /\ lastResult.op = "update"
    /\ time = 4
    /\ Len(gates) = 2
    /\ spawned = 7
    /\ OneStepFrom(agents[7], gates[2])
    /\ ~OneStepFrom(agents[7], gates[1])

(***************************************************************************)
(* The agent lifecycle.                                                    *)
(***************************************************************************)
\* C25: over every update() call, an agent that is seated or standing keeps
\* its position, flags and path, every agent stays in the collection at its
\* index, and neither the seated count nor the standing count decreases.
C25_TerminalStatesAbsorbing ==
    [][lastResult'.op = "update" =>
          /\ Len(agents') >= Len(agents)
          /\ \A i \in DOMAIN agents :
                IsTerminal(agents[i]) => agents'[i] = agents[i]
          /\ CountSeated(agents') >= CountSeated(agents)
          /\ CountStanding(agents') >= CountStanding(agents)]_vars

\* The first agent sat down on an earlier tick than the last one and is
\* still seated, while another agent is standing.
C25_Witness ==
    /\ lastResult.op = "update"
    /\ Len(agents) >= 2
    /\ agents[1].seated
    /\ time > Len(FullPath(agents[1], gates[1])) + 1
    /\ \E j \in DOMAIN agents : agents[j].standing

\* The agents whose next Agent.update finds the path empty.
SettlingAgents == {i \in DOMAIN agents : ~IsTerminal(agents[i]) /\ agents[i].path = <<>>}

\* The agents of SettlingAgents updated before (after) agent i in the same
\* forEach and standing on the same cell.
SettlingBefore(i) == {j \in SettlingAgents : j < i /\ agents[j].pos = agents[i].pos}
SettlingAfter(i) == {j \in SettlingAgents : j > i /\ agents[j].pos = agents[i].pos}

\* The cell of agent i is a Seat when its update runs in this step: it is a
\* Seat before the step, the gate loop has not reserved it and no agent
\* updated earlier in the step has settled on it.
SeatThen(i) ==
    /\ grid # Null
    /\ agents[i].pos \in DOMAIN grid
    /\ grid[agents[i].pos] = CELL_TYPES.SEAT
    /\ \A j \in (Len(agents) + 1)..Len(agents') :
          ~(agents'[j].willStand /\ agents'[j].seat = agents[i].pos)
    /\ SettlingBefore(i) = {}

\* The agent became seated or standing, one of the two, where it was.
SettledInPlace(i) ==
    /\ agents'[i].seated # agents'[i].standing
    /\ agents'[i].pos = agents[i].pos
    /\ agents'[i].path = <<>>

C27_OneCellPerUpdate ==
    /\ [](Len(agents) >= 1 =>
             LET L == Len(FullPath(agents[1], gates[1]))
             IN  /\ IsTerminal(agents[1]) <=> time >= L + 1
                 /\ time <= L => Len(agents[1].path) = L - time)
    /\ [][IsCountingUpdate =>
             \A i \in DOMAIN agents :
                 ~IsTerminal(agents[i]) =>
                     IF agents[i].path = <<>>
                     THEN IsTerminal(agents'[i]) /\ agents'[i].pos = agents[i].pos
                     ELSE /\ agents'[i].pos = Head(agents[i].path)
                          /\ agents'[i].path = Tail(agents[i].path)
                          /\ ~IsTerminal(agents'[i])]_vars

\* The first agent had a path of at least three cells and became terminal in
\* the tick after the one in which it took the last step.
C27_Witness ==
    /\ lastResult.op = "update" /\ "seated" \in DOMAIN lastResult
    /\ Len(agents) >= 1
    /\ Len(FullPath(agents[1], gates[1])) >= 3
    /\ time = Len(FullPath(agents[1], gates[1])) + 1
    /\ IsTerminal(agents[1])

(***************************************************************************)
(* PathfindingEngine.computeSimplePath on its own: the arguments are       *)
(* chosen first, then the function is applied to them.                     *)
(***************************************************************************)
\* The number of columns of the grid the arguments are taken from.
PathCols == 4

PathCells == (0..(ROWS - 1)) \X (0..(PathCols - 1))

\* The arguments of a call: spawn and seat are cells of the grid, corridor a
\* column and row0 a row of it.
ComputeSimplePathArgs ==
    {[op |-> "args", spawn |-> spawn, corridor |-> corridor, seat |-> seat, row0 |-> row0] :
        spawn \in PathCells, corridor \in 0..(PathCols - 1),
        seat \in PathCells, row0 \in 0..(ROWS - 1)}

PathInit ==
    /\ lastResult \in ComputeSimplePathArgs
    /\ config = DefaultConfig
    /\ listeners = <<>>
    /\ runHistory = <<>>
    /\ ui = InitialUI
    /\ grid = Null
    /\ agents = <<>>
    /\ spawned = 0
    /\ time = 0
    /\ completed = FALSE
    /\ assigned = {}
    /\ gates = <<>>
    /\ seatBlocks = <<>>
    /\ corridorSegs = <<>>
    /\ blockToCorridorCells = <<>>
    /\ chartData = EmptyChart

\* PathfindingEngine.computeSimplePath(spawn, corridor, seat, row0).
ComputeSimplePathCall ==
    /\ lastResult.op = "args"
    /\ lastResult' = [op |-> "computeSimplePath", spawn |-> lastResult.spawn,
                      corridor |-> lastResult.corridor, seat |-> lastResult.seat,
                      row0 |-> lastResult.row0,
                      path |-> ComputeSimplePath(lastResult.spawn, lastResult.corridor,
                                                 lastResult.seat, lastResult.row0)]
    /\ UNCHANGED <<config, listeners, runHistory, ui, grid, agents, spawned, time,
                   completed, assigned, gates, seatBlocks, corridorSegs,
                   blockToCorridorCells, chartData>>

PathNext == ComputeSimplePathCall

PathSpec == PathInit /\ [][PathNext]_vars

\* Cells p and q are one row or one column apart.
OneStep(p, q) == Abs(p[1] - q[1]) + Abs(p[2] - q[2]) = 1

\* path is one contiguous walk from spawn through <<row0, spawn column>>,
\* <<row0, corridor>> and <<seat row, corridor>> to seat, each leg straight.
IsFourLegWalk(path, spawn, corridor, seat, row0) ==
    LET walk == <<spawn>> \o path
        n1 == Abs(spawn[1] - row0)
        n2 == n1 + Abs(spawn[2] - corridor)
        n3 == n2 + Abs(row0 - seat[1])
        n4 == n3 + Abs(corridor - seat[2])
    IN  /\ Len(path) = n4
        /\ \A i \in 1..Len(path) : OneStep(walk[i], walk[i + 1])
        /\ walk[n1 + 1] = <<row0, spawn[2]>>
        /\ walk[n2 + 1] = <<row0, corridor>>
        /\ walk[n3 + 1] = <<seat[1], corridor>>
        /\ walk[n4 + 1] = seat

\* C28 (as stated): for every spawn, corridor column, seat and turn row of the
\* grid the path is the four legs in order as one contiguous walk that ends
\* at the seat, and it is empty only when spawn is the seat and no leg has a
\* cell.
C28_FourLegWalk ==
    lastResult.op = "computeSimplePath" =>
        /\ IsFourLegWalk(lastResult.path, lastResult.spawn, lastResult.corridor,
                         lastResult.seat, lastResult.row0)
        /\ lastResult.path = <<>> =>
              /\ lastResult.spawn = lastResult.seat
              /\ lastResult.row0 = lastResult.spawn[1]
              /\ lastResult.corridor = lastResult.spawn[2]

\* What does hold: the same for the calls whose turn row is not above the
\* seat row.
C28_FourLegWalkUpward ==
    (lastResult.op = "computeSimplePath" /\ lastResult.row0 >= lastResult.seat[1]) =>
        /\ IsFourLegWalk(lastResult.path, lastResult.spawn, lastResult.corridor,
                         lastResult.seat, lastResult.row0)
        /\ lastResult.path = <<>> =>
              /\ lastResult.spawn = lastResult.seat
              /\ lastResult.row0 = lastResult.spawn[1]
              /\ lastResult.corridor = lastResult.spawn[2]

(***************************************************************************)
(* SeatSelectionEngine.pickSeatInBlock on its own, in a hall with a seat   *)
(* band of several rows and two blocks wider than the row threshold: the   *)
(* grid, the assigned set, BACK_PREF and the block are chosen first, then  *)
(* the function is applied to them.                                        *)
(***************************************************************************)
\* The rows of the seat band and the seats of a block row.
SeatBandRows == 3
SeatBlockWidth == 6

TallSeatRows == [START |-> SIM_CONSTANTS.SEAT_ROWS.START,
                 END |-> SIM_CONSTANTS.SEAT_ROWS.START + SeatBandRows]

TallBand == TallSeatRows.START..(TallSeatRows.END - 1)

\* Two blocks with a corridor column before, between and after them.
TallBlocks == [b \in 0..1 |-> <<1 + b * (SeatBlockWidth + 1),
                               (b + 1) * (SeatBlockWidth + 1) - 1>>]

\* What a block row can look like during a run, by the offset k = 0, 1, ...
\* of the cell in the row: every seat free; as many agents seated as the
\* threshold and the other seats free; every seat taken; every seat free but
\* assigned to an agent on its way; a standing agent, a seated agent, an
\* assigned seat and free seats.
RowPatterns == {"free", "closed", "full", "reserved", "mixed"}

PatternCell(pat, k) ==
    CASE pat = "free" -> CELL_TYPES.SEAT
      [] pat = "closed" -> IF k < SIM_CONSTANTS.DEFAULT_ROW_THRESHOLD
                           THEN CELL_TYPES.SEATED_AGENT ELSE CELL_TYPES.SEAT
      [] pat = "full" -> CELL_TYPES.SEATED_AGENT
      [] pat = "reserved" -> CELL_TYPES.SEAT
      [] pat = "mixed" -> IF k = 0 THEN CELL_TYPES.STANDING
                          ELSE IF k = 1 THEN CELL_TYPES.SEATED_AGENT
                          ELSE CELL_TYPES.SEAT

PatternAssigned(pat, k) == pat = "reserved" \/ (pat = "mixed" /\ k = 2)

\* The block of column c, or -1.
TallBlockOf(c) ==
    IF \E b \in DOMAIN TallBlocks : c \in TallBlocks[b][1]..TallBlocks[b][2]
    THEN CHOOSE b \in DOMAIN TallBlocks : c \in TallBlocks[b][1]..TallBlocks[b][2]
    ELSE -1

TallCells == (0..(TallSeatRows.END + 1)) \X (0..(2 * SeatBlockWidth + 2))

\* The grid and the assigned set for the patterns pats[b][r] of the rows.
TallGrid(pats) ==
    [p \in TallCells |->
        IF TallBlockOf(p[2]) = -1 THEN CELL_TYPES.CORRIDOR
        ELSE IF p[1] \notin TallBand THEN CELL_TYPES.EMPTY
        ELSE PatternCell(pats[TallBlockOf(p[2])][p[1]],
                         p[2] - TallBlocks[TallBlockOf(p[2])][1])]

TallAssigned(pats) ==
    {p \in TallCells :
        /\ TallBlockOf(p[2]) # -1
        /\ p[1] \in TallBand
        /\ PatternAssigned(pats[TallBlockOf(p[2])][p[1]],
                           p[2] - TallBlocks[TallBlockOf(p[2])][1])}

\* The first block takes every combination of row patterns, the second is
\* free or taken throughout.
TallPatterns ==
    {[b \in 0..1 |-> IF b = 0 THEN p0 ELSE [r \in TallBand |-> p1]] :
        p0 \in [TallBand -> RowPatterns], p1 \in {"free", "full"}}

\* config.BACK_PREF of the per-spawn configuration, in halves: 0, 1, 2, 3, 4
\* and 7.5.
SeatBackPrefs == {0, 2, 4, 6, 8, 15}

SeatInit ==
    /\ \E pats \in TallPatterns :
          /\ grid = TallGrid(pats)
          /\ assigned = TallAssigned(pats)
    /\ \E bp \in SeatBackPrefs :
          config = [CrowdConfig EXCEPT !.COLS = 2 * SeatBlockWidth + 3,
                                       !.ROWS = TallSeatRows.END + 2,
                                       !.CORRIDOR_WIDTH = 1,
                                       !.BACK_PREF = bp]
    /\ seatBlocks = TallBlocks
    /\ lastResult \in {[op |-> "args", block |-> b] : b \in DOMAIN TallBlocks}
    /\ agents = <<>>
    /\ spawned = 0
    /\ time = 0
    /\ completed = FALSE
    /\ gates = <<>>
    /\ corridorSegs = <<>>
    /\ blockToCorridorCells = <<>>
    /\ chartData = EmptyChart
    /\ listeners = <<>>
    /\ runHistory = <<>>
    /\ ui = InitialUI

\* SeatSelectionEngine.pickSeatInBlock(grid, block, assigned, seatBlocks,
\* config), for one outcome of the draws.
PickSeatInBlockCall ==
    /\ lastResult.op = "args"
    /\ \E s \in PickSeatInBlockIn(TallSeatRows, grid, lastResult.block, assigned,
                                  seatBlocks, config,
                                  SIM_CONSTANTS.DEFAULT_ROW_THRESHOLD) :
          lastResult' = [op |-> "pickSeatInBlock", block |-> lastResult.block, seat |-> s]
    /\ UNCHANGED <<config, grid, agents, spawned, time, completed, assigned, gates,
                   seatBlocks, corridorSegs, blockToCorridorCells, chartData,
                   listeners, runHistory, ui>>

SeatNext == PickSeatInBlockCall

SeatSpec == SeatInit /\ [][SeatNext]_vars

\* The SeatedAgent and Standing cells of row r between columns c0 and c1.
OccupiedInRow(r, c0, c1) ==
    Cardinality({c \in c0..c1 : grid[<<r, c>>] = CELL_TYPES.SEATED_AGENT})
    + Cardinality({c \in c0..c1 : grid[<<r, c>>] = CELL_TYPES.STANDING})

\* Row r of block b is below the row threshold and holds an unassigned Seat.
RowOpen(b, r) ==
    /\ OccupiedInRow(r, seatBlocks[b][1], seatBlocks[b][2])
          < SIM_CONSTANTS.DEFAULT_ROW_THRESHOLD
    /\ \E c \in seatBlocks[b][1]..seatBlocks[b][2] :
          grid[<<r, c>>] = CELL_TYPES.SEAT /\ <<r, c>> \notin assigned

\* C29: a seat returned by pickSeatInBlock is a Seat cell of the grid, is not
\* in the assigned set, lies in the column range of the requested block and
\* in the seat band, and its row's occupancy over the block's range is below
\* the row threshold.
C29_ReturnedSeatIsOpen ==
    (lastResult.op = "pickSeatInBlock" /\ lastResult.seat # Null) =>
        LET r == lastResult.seat[1]
            c == lastResult.seat[2]
            b == lastResult.block
        IN  /\ lastResult.seat \in DOMAIN grid
            /\ grid[lastResult.seat] = CELL_TYPES.SEAT
            /\ lastResult.seat \notin assigned
            /\ c \in seatBlocks[b][1]..seatBlocks[b][2]
            /\ r \in TallBand
            /\ OccupiedInRow(r, seatBlocks[b][1], seatBlocks[b][2])
                  < SIM_CONSTANTS.DEFAULT_ROW_THRESHOLD

\* A seat was returned from a row that holds a standing and a seated agent
\* and an assigned seat, while another row of the block, closed by the
\* threshold, still has a free seat.
C29_Witness ==
    /\ lastResult.op = "pickSeatInBlock"
    /\ lastResult.seat # Null
    /\ lastResult.block = 0
    /\ OccupiedInRow(lastResult.seat[1], seatBlocks[0][1], seatBlocks[0][2]) = 2
    /\ \E r \in TallBand :
          /\ OccupiedInRow(r, seatBlocks[0][1], seatBlocks[0][2])
                = SIM_CONSTANTS.DEFAULT_ROW_THRESHOLD
          /\ \E c \in seatBlocks[0][1]..seatBlocks[0][2] :
                grid[<<r, c>>] = CELL_TYPES.SEAT /\ <<r, c>> \notin assigned

\* C30: pickSeatInBlock returns null exactly when no row of the band is both
\* below the row threshold and in possession of an unassigned Seat cell of
\* the block; and whatever BACK_PREF and the draws, the rows left by the hard
\* and the two probabilistic front-row exclusions are some of the available
\* rows and at least one of them.
C30_NullIffNoOpenRow ==
    lastResult.op = "pickSeatInBlock" =>
        LET b == lastResult.block
            availableRows == AvailableRowsIn(TallSeatRows, grid, seatBlocks[b][1],
                                             seatBlocks[b][2], assigned,
                                             SIM_CONSTANTS.DEFAULT_ROW_THRESHOLD)
        IN  /\ lastResult.seat = Null <=> ~(\E r \in TallBand : RowOpen(b, r))
            /\ SeqToSet(availableRows) = {r \in TallBand : RowOpen(b, r)}
            /\ availableRows # <<>> =>
                  \A cand \in CandidateRows(availableRows, config.BACK_PREF) :
                      /\ cand # <<>>
                      /\ SeqToSet(cand) \subseteq SeqToSet(availableRows)

\* With BACK_PREF 4, which bans the two front rows when it can, the seat
\* returned is in the front row: no other row of the block was available.
C30_Witness ==
    /\ lastResult.op = "pickSeatInBlock"
    /\ config.BACK_PREF = 8
    /\ lastResult.seat # Null
    /\ lastResult.seat[1] = TallSeatRows.START
    /\ \A r \in TallBand : RowOpen(lastResult.block, r) <=> r = TallSeatRows.START

(***************************************************************************)
(* The Agent constructor on its own, in a hall whose block rows are wider  *)
(* than the row threshold: the grid and the assigned set of a run under    *)
(* way are chosen first, then an agent is built at a gate.                 *)
(***************************************************************************)
\* The columns of the hall: two blocks of six seats with corridors of two.
WideCols == 18

WideConfig ==
    [CrowdConfig EXCEPT !.COLS = WideCols,
                        !.CORRIDOR_WIDTH = CalculateCorridorWidth(WideCols, 2)]

WideBlocks == GenerateSeatBlocks(WideConfig.COLS, WideConfig.NUM_BLOCKS,
                                 WideConfig.CORRIDOR_WIDTH)

\* The block of column c, or -1.
WideBlockOf(c) ==
    IF \E b \in DOMAIN WideBlocks : c \in WideBlocks[b][1]..WideBlocks[b][2]
    THEN CHOOSE b \in DOMAIN WideBlocks : c \in WideBlocks[b][1]..WideBlocks[b][2]
    ELSE -1

\* The grid of initialize() with the seat rows of block b in the state
\* pats[b], and the assigned set that goes with it.
WideGrid(pats) ==
    LET g == BuildGrid(WideConfig, FALSE)
    IN  [p \in DOMAIN g |->
            IF g[p] = CELL_TYPES.SEAT
            THEN PatternCell(pats[WideBlockOf(p[2])], p[2] - WideBlocks[WideBlockOf(p[2])][1])
            ELSE g[p]]

WideAssigned(pats) ==
    LET g == BuildGrid(WideConfig, FALSE)
    IN  {p \in DOMAIN g :
            /\ g[p] = CELL_TYPES.SEAT
            /\ PatternAssigned(pats[WideBlockOf(p[2])],
                               p[2] - WideBlocks[WideBlockOf(p[2])][1])}

AgentInit ==
    /\ \E pats \in [DOMAIN WideBlocks -> RowPatterns] :
          /\ grid = WideGrid(pats)
          /\ assigned = WideAssigned(pats)
    /\ \E bp \in SeatBackPrefs, flag \in BOOLEAN :
          config = [WideConfig EXCEPT !.BACK_PREF = bp, !.FEATURE_ASSIGNED_SEATS = flag]
    /\ seatBlocks = WideBlocks
    /\ corridorSegs = GenerateCorridorSegments(WideConfig.COLS, WideBlocks,
                                               WideConfig.CORRIDOR_WIDTH)
    /\ blockToCorridorCells =
          BlockToCorridorCells(WideConfig,
                               GenerateCorridorSegments(WideConfig.COLS, WideBlocks,
                                                        WideConfig.CORRIDOR_WIDTH))
    /\ gates = [i \in DOMAIN GateColumns(WideConfig) |->
                   <<WideConfig.ROWS - 1, GateColumns(WideConfig)[i]>>]
    /\ lastResult = [op |-> "args"]
    /\ agents = <<>>
    /\ spawned = 0
    /\ time = 0
    /\ completed = FALSE
    /\ chartData = EmptyChart
    /\ listeners = <<>>
    /\ runHistory = <<>>
    /\ ui = InitialUI

\* new Agent(grid, gate, assigned, seatBlocks, blockToCorridorCells, config,
\* gates) for one outcome of the draws; the constructor adds the seat of a
\* seat-bound agent to the assigned set.
NewAgentCall ==
    /\ lastResult.op = "args"
    /\ \E k \in DOMAIN gates :
          \E a \in NewAgents(grid, gates[k], assigned, seatBlocks, blockToCorridorCells,
                             config, gates) :
              /\ lastResult' = [op |-> "newAgent", agent |-> a]
              /\ assigned' = AssignedAfter(assigned, a, config)
    /\ UNCHANGED <<config, grid, agents, spawned, time, completed, gates, seatBlocks,
                   corridorSegs, blockToCorridorCells, chartData, listeners,
                   runHistory, ui>>

AgentNext == NewAgentCall

AgentSpec == AgentInit /\ [][AgentNext]_vars

\* The Seat cells of the grid that are not in the assigned set.
FreeSeats == {p \in DOMAIN grid : grid[p] = CELL_TYPES.SEAT /\ p \notin assigned}

\* C23 (as stated): an agent is built will-stand only when no Seat cell that
\* is unassigned remains in any block of the grid.
C23_WillStandOnlyWithoutFreeSeat ==
    [][(lastResult'.op = "newAgent" /\ lastResult'.agent.willStand)
          => FreeSeats = {}]_vars

\* C23 (amended): an agent is built will-stand only when, at its
\* construction, no block has a row of the seat band that is below the row
\* threshold and holds an unassigned Seat cell; and then it is built
\* will-stand.
C23_WillStandOnlyWithoutOpenRow ==
    [][lastResult'.op = "newAgent" =>
          (lastResult'.agent.willStand
              <=> ~(\E b \in DOMAIN seatBlocks : \E r \in SeatBand : RowOpen(b, r)))]_vars

\* An agent was built will-stand although a Seat cell is unassigned: each
\* block row holds as many seated agents as the row threshold.
C23_Witness ==
    /\ lastResult.op = "newAgent"
    /\ lastResult.agent.willStand
    /\ FreeSeats # {}
    /\ \A b \in DOMAIN seatBlocks : \A r \in SeatBand :
          OccupiedInRow(r, seatBlocks[b][1], seatBlocks[b][2])
             = SIM_CONSTANTS.DEFAULT_ROW_THRESHOLD

(***************************************************************************)
(* PathfindingEngine.pickBlockBasedOnGate on its own, at the gate columns  *)
(* of the source: the arguments are chosen first, then the function is     *)
(* applied to them.                                                        *)
(***************************************************************************)
\* SIM_CONSTANTS.GATE_POSITIONS and the gate row of the 20-row hall.
SourceGatePositions == <<10, 34, 58>>
SourceGates(n) == [i \in 1..n |-> <<19, SourceGatePositions[i]>>]

\* The gate lists initialize() can build (the positions below COLS), the
\* block counts validate() accepts, and the columns asked about: the gates
\* and some columns that are not gates.
PickBlockArgs ==
    {[op |-> "args", gateCol |-> gateCol, numBlocks |-> numBlocks, gates |-> SourceGates(n)] :
        gateCol \in {0, 10, 21, 22, 34, 47, 58, 67}, numBlocks \in 2..6, n \in 1..3}

BlockInit ==
    /\ lastResult \in PickBlockArgs
    /\ config = DefaultConfig
    /\ listeners = <<>>
    /\ runHistory = <<>>
    /\ ui = InitialUI
    /\ grid = Null
    /\ agents = <<>>
    /\ spawned = 0
    /\ time = 0
    /\ completed = FALSE
    /\ assigned = {}
    /\ gates = <<>>
    /\ seatBlocks = <<>>
    /\ corridorSegs = <<>>
    /\ blockToCorridorCells = <<>>
    /\ chartData = EmptyChart

\* PathfindingEngine.pickBlockBasedOnGate(gateCol, numBlocks, gates), for one
\* outcome of the draw.
PickBlockBasedOnGateCall ==
    /\ lastResult.op = "args"
    /\ \E b \in PickBlockBasedOnGate(lastResult.gateCol, lastResult.numBlocks,
                                     lastResult.gates) :
          lastResult' = [op |-> "pickBlockBasedOnGate", gateCol |-> lastResult.gateCol,
                         numBlocks |-> lastResult.numBlocks, gates |-> lastResult.gates,
                         block |-> b]
    /\ UNCHANGED <<config, listeners, runHistory, ui, grid, agents, spawned, time,
                   completed, assigned, gates, seatBlocks, corridorSegs,
                   blockToCorridorCells, chartData>>

BlockNext == PickBlockBasedOnGateCall

BlockSpec == BlockInit /\ [][BlockNext]_vars

MappedToAdjacentSegments(cfg, blocks, segs, b2c) ==
    \A i \in DOMAIN blocks :
        /\ (i + 2) \in DOMAIN segs
        /\ b2c[i] = <<segs[i + 1], segs[i + 2]>>
        /\ segs[i + 1] = RangeSeq(blocks[i][1] - cfg.CORRIDOR_WIDTH, blocks[i][1] - 1)
        /\ segs[i + 2] = RangeSeq(blocks[i][2] + 1, blocks[i][2] + cfg.CORRIDOR_WIDTH)

\* C32: after initialize() block i is mapped to corridor segments i and i+1,
\* the columns right before and right after its range (so it is for every
\* layout of HallConfigs too); and the corridor column of every seat-bound
\* agent is in one of the two segments of its block and is the column of
\* that segment nearest its seat: blockStart - 1 or blockEnd + 1.
C32_CorridorNextToBlock ==
    /\ (lastResult.op = "initialize" /\ lastResult.ok) =>
          /\ MappedToAdjacentSegments(config, seatBlocks, corridorSegs, blockToCorridorCells)
          /\ \A cfg \in HallConfigs :
                LET blocks == GenerateSeatBlocks(cfg.COLS, cfg.NUM_BLOCKS, cfg.CORRIDOR_WIDTH)
                    segs == GenerateCorridorSegments(cfg.COLS, blocks, cfg.CORRIDOR_WIDTH)
                IN  MappedToAdjacentSegments(cfg, blocks, segs,
                                             BlockToCorridorCells(cfg, segs))
    /\ \A i \in DOMAIN agents :
          ~agents[i].willStand =>
              LET b == agents[i].block
                  near(seg) == CHOOSE c \in SeqToSet(seg) :
                                  \A d \in SeqToSet(seg) :
                                      Abs(agents[i].seat[2] - c) <= Abs(agents[i].seat[2] - d)
              IN  /\ b \in DOMAIN blockToCorridorCells
                  /\ \E k \in DOMAIN blockToCorridorCells[b] :
                        /\ agents[i].corridor \in SeqToSet(blockToCorridorCells[b][k])
                        /\ agents[i].corridor = near(blockToCorridorCells[b][k])
                  /\ agents[i].corridor \in {seatBlocks[b][1] - 1, seatBlocks[b][2] + 1}

\* Two seat-bound agents of the same block, one sent through the corridor
\* before the block and one through the corridor after it.
C32_Witness ==
    /\ lastResult.op = "update"
    /\ \E i, j \in DOMAIN agents :
          /\ ~agents[i].willStand /\ ~agents[j].willStand
          /\ agents[i].block = agents[j].block
          /\ agents[i].corridor = seatBlocks[agents[i].block][1] - 1
          /\ agents[j].corridor = seatBlocks[agents[j].block][2] + 1

(***************************************************************************)
(* findStandingPosition on the grids a crowded hall goes through.          *)
(***************************************************************************)
\* The cells of the back rows of g that findStandingPosition may hand out.
FreeBackCells(g, r) ==
    {<<r, c>> : c \in {c \in 0..(GridCols(g) - 1) :
                          g[<<r, c>>] \notin {CELL_TYPES.SEAT, CELL_TYPES.GATE,
                                              CELL_TYPES.SEATED_AGENT, CELL_TYPES.STANDING}}}

\* The grids update() leaves behind while will-stand agents reserve the back
\* rows of the hall of GateConfig: the last back row is handed out first, a
\* row above it only once the rows below are full, and once every row is
\* full the fallback cell (any back-row cell, a Gate cell included) is
\* marked Standing.
StandGrids ==
    LET base == BuildGrid(GateConfig, FALSE)
        free(r) == FreeBackCells(base, r)
        gateCells == {p \in DOMAIN base : base[p] = CELL_TYPES.GATE}
        below(r) == UNION {free(q) : q \in (r + 1)..SIM_CONSTANTS.BACK_ROWS.END}
        taken == UNION {{below(r) \cup s : s \in SUBSET free(r)} : r \in BackRows}
                    \cup {UNION {free(r) : r \in BackRows} \cup s : s \in SUBSET gateCells}
    IN  {[p \in DOMAIN base |-> IF p \in s THEN CELL_TYPES.STANDING ELSE base[p]] :
            s \in taken}

StandInit ==
    /\ grid \in StandGrids
    /\ lastResult = [op |-> "grid"]
    /\ config = GateConfig
    /\ listeners = <<>>
    /\ runHistory = <<>>
    /\ ui = InitialUI
    /\ agents = <<>>
    /\ spawned = 0
    /\ time = 0
    /\ completed = FALSE
    /\ assigned = {}
    /\ gates = <<>>
    /\ seatBlocks = <<>>
    /\ corridorSegs = <<>>
    /\ blockToCorridorCells = <<>>
    /\ chartData = EmptyChart

\* SeatSelectionEngine.findStandingPosition(grid); the grid is only read.
FindStandingPositionCall ==
    /\ \E pos \in FindStandingPosition(grid) :
          lastResult' = [op |-> "findStandingPosition", pos |-> pos]
    /\ UNCHANGED <<config, listeners, runHistory, ui, grid, agents, spawned, time,
                   completed, assigned, gates, seatBlocks, corridorSegs,
                   blockToCorridorCells, chartData>>

StandNext == FindStandingPositionCall

StandSpec == StandInit /\ [][StandNext]_vars

\* The back rows of the grid with a cell that can be handed out.
RowsWithFreeCell == {r \in BackRows : FreeBackCells(grid, r) # {}}

\* C33: findStandingPosition returns a cell of the first row, scanning from
\* the last back row upward, that has a cell which is not Seat, Gate,
\* SeatedAgent or Standing; when no row has one, two calls on the same grid
\* return the same cell.
C33_FirstFreeRowOrFixedFallback ==
    [][lastResult'.op = "findStandingPosition" =>
          IF RowsWithFreeCell # {}
          THEN lastResult'.pos \in
                   FreeBackCells(grid, CHOOSE r \in RowsWithFreeCell :
                                           \A q \in RowsWithFreeCell : q <= r)
          ELSE lastResult.op = "findStandingPosition" =>
                   lastResult'.pos = lastResult.pos]_vars

\* The part of C33 that holds: with a free cell in some back row the result
\* is a free cell of the lowest such row; with none it is a cell of the back
\* rows.
C33_FirstFreeRow ==
    [][lastResult'.op = "findStandingPosition" =>
          IF RowsWithFreeCell # {}
          THEN lastResult'.pos \in
                   FreeBackCells(grid, CHOOSE r \in RowsWithFreeCell :
                                           \A q \in RowsWithFreeCell : q <= r)
          ELSE lastResult'.pos[1] \in BackRows
                   /\ lastResult'.pos[2] \in 0..(GridCols(grid) - 1)]_vars

\* A call on a grid whose last back row is full and whose row above is not.
C33_SecondRowReached ==
    /\ lastResult.op = "findStandingPosition"
    /\ FreeBackCells(grid, SIM_CONSTANTS.BACK_ROWS.END) = {}
    /\ RowsWithFreeCell # {}
    /\ lastResult.pos[1] = SIM_CONSTANTS.BACK_ROWS.END - 1

(***************************************************************************)
(* The derived corridor width.                                             *)
(***************************************************************************)
\* The hall widths a caller stores with set('COLS', ...), which validate()
\* accepts unseen: the constructor's 68 columns and narrower and wider halls.
WidthCols == {3, 7, 12, 20, 33, 68, 100}

\* The corridor widths a caller stores with set('CORRIDOR_WIDTH', ...).
WidthValues == {2, 4, 6}

\* new ConfigManager() followed by set calls on the keys the corridor width
\* depends on and on the width itself.
WidthNext ==
    \/ \E value \in (Validations["NUM_BLOCKS"][1] - 1)..(Validations["NUM_BLOCKS"][2] + 1) :
          Set("NUM_BLOCKS", value)
    \/ \E value \in WidthCols : Set("COLS", value)
    \/ \E value \in WidthValues : Set("CORRIDOR_WIDTH", value)

WidthSpec == CfgInit /\ [][WidthNext]_vars

\* An accepted set('NUM_BLOCKS', value).
IsAcceptedBlocksSet(result) ==
    /\ result.op = "set"
    /\ result.key = "NUM_BLOCKS"
    /\ Validate(result.key, result.value)

\* floor((COLS - (NUM_BLOCKS + 1) * w) / NUM_BLOCKS).
SeatsPerBlockAt(cfg, w) == (cfg.COLS - (cfg.NUM_BLOCKS + 1) * w) \div cfg.NUM_BLOCKS

\* The widths of 2..6 that leave a non-negative seat budget.
FittingWidths(cfg) == {w \in 2..6 : cfg.COLS - (cfg.NUM_BLOCKS + 1) * w >= 0}

\* The fitting widths that give the most seats per block.
BestWidths(cfg) ==
    {w \in FittingWidths(cfg) :
        \A v \in FittingWidths(cfg) : SeatsPerBlockAt(cfg, v) <= SeatsPerBlockAt(cfg, w)}

\* C34: an accepted set of NUM_BLOCKS leaves in CORRIDOR_WIDTH the width of
\* 2..6 that gives the most seats per block among the widths leaving a
\* non-negative seat budget for the new block count, the largest such width
\* if several give the most; whatever CORRIDOR_WIDTH held before.
C34_WidthRecomputedOnBlocksSet ==
    [][(IsAcceptedBlocksSet(lastResult') /\ FittingWidths(config') # {}) =>
          /\ config'.NUM_BLOCKS = lastResult'.value
          /\ config'.CORRIDOR_WIDTH \in BestWidths(config')
          /\ \A w \in BestWidths(config') : w <= config'.CORRIDOR_WIDTH]_vars

\* No two fitting widths give the same seats per block: a step of the width
\* takes NUM_BLOCKS + 1 columns from NUM_BLOCKS blocks.
C34_NoTwoWidthsTie ==
    \A w, v \in FittingWidths(config) :
        w < v => SeatsPerBlockAt(config, v) < SeatsPerBlockAt(config, w)

\* An accepted set of NUM_BLOCKS to 3 on a hall of 33 columns, where the
\* widths 2..6 all fit, that left the width 2.
C34_Witness ==
    /\ IsAcceptedBlocksSet(lastResult)
    /\ Cardinality(FittingWidths(config)) > 1
    /\ config.NUM_BLOCKS = 3
    /\ config.COLS = 33
    /\ config.CORRIDOR_WIDTH = 2

\* C40: with 68 columns CORRIDOR_WIDTH is 2 after construction and after
\* every accepted set of NUM_BLOCKS, for every block count 2..6.
C40_MinimumWidthAt68 ==
    (config.COLS = 68 /\ (lastResult.op = "new" \/ IsAcceptedBlocksSet(lastResult))) =>
        /\ config.NUM_BLOCKS \in 2..6
        /\ config.CORRIDOR_WIDTH = 2

\* Every block count 2..6 is set on the 68-column hall.
C40_Witness ==
    /\ config.COLS = 68
    /\ IsAcceptedBlocksSet(lastResult)
    /\ config.NUM_BLOCKS = 6
    /\ lastResult.value = 6
    /\ config.CORRIDOR_WIDTH = 2

(***************************************************************************)
(* The per-spawn configuration.                                            *)
(***************************************************************************)
\* The agent counts the per-spawn configuration is computed for: both ends
\* of the validated range, the constructor's 384, and a count that is not a
\* multiple of ten.
SpawnAgentCounts == {50, 57, 384, 500}

\* The engine's configuration and spawn count at a spawn: spawned is below
\* NUM_AGENTS, BACK_PREF is any value validate() accepts.
SpawnInit ==
    /\ \E n \in SpawnAgentCounts :
       \E b \in Validations["BACK_PREF"][1]..Validations["BACK_PREF"][2] :
          /\ config = [DefaultConfig EXCEPT !.NUM_AGENTS = n, !.BACK_PREF = b]
          /\ spawned \in 0..(n - 1)
    /\ lastResult = [op |-> "args"]
    /\ listeners = <<>>
    /\ runHistory = <<>>
    /\ ui = InitialUI
    /\ grid = Null
    /\ agents = <<>>
    /\ time = 0
    /\ completed = FALSE
    /\ assigned = {}
    /\ gates = <<>>
    /\ seatBlocks = <<>>
    /\ corridorSegs = <<>>
    /\ blockToCorridorCells = <<>>
    /\ chartData = EmptyChart

\* const modifiedConfig = {...this.config}; modifiedConfig.BACK_PREF = ...:
\* the copy is changed, this.config is not.
ModifiedConfigCall ==
    /\ lastResult.op = "args"
    /\ lastResult' = [op |-> "modifiedConfig", cfg |-> ModifiedConfig(config, spawned)]
    /\ UNCHANGED <<config, listeners, runHistory, ui, grid, agents, spawned, time,
                   completed, assigned, gates, seatBlocks, corridorSegs,
                   blockToCorridorCells, chartData>>

SpawnNext == ModifiedConfigCall

SpawnSpec == SpawnInit /\ [][SpawnNext]_vars

\* Twice the multiplier the agent spawned after k others gets among n.
DoubleMultiplier(k, n) ==
    IF 10 * k < 3 * n THEN 3 ELSE IF 10 * k < 7 * n THEN 2 ELSE 1

\* C35: the configuration of the agent spawned when k agents have been
\* spawned is the engine's with BACK_PREF times 1.5 if k/NUM_AGENTS < 0.3,
\* times 1.0 if 0.3 <= k/NUM_AGENTS < 0.7 and times 0.5 otherwise (BACK_PREF
\* of the copy is kept in halves), every other key as configured; when
\* NUM_AGENTS is a multiple of ten the three multipliers go to exactly the
\* first 30%, the next 40% and the last 30% of the spawns; and the engine's
\* own configuration is not changed by the spawn.
C35_BackPrefScaledPerSpawn ==
    /\ [](lastResult.op = "modifiedConfig" =>
            /\ lastResult.cfg.BACK_PREF =
                   config.BACK_PREF * DoubleMultiplier(spawned, config.NUM_AGENTS)
            /\ \A key \in DOMAIN config \ {"BACK_PREF"} : lastResult.cfg[key] = config[key]
            /\ (config.NUM_AGENTS % 10 = 0 /\ config.BACK_PREF > 0) =>
                  LET n == config.NUM_AGENTS
                      tenth == n \div 10
                      got(m) == {k \in 0..(n - 1) :
                                    ModifiedConfig(config, k).BACK_PREF = config.BACK_PREF * m}
                  IN  /\ got(3) = 0..(3 * tenth - 1)
                      /\ got(2) = (3 * tenth)..(7 * tenth - 1)
                      /\ got(1) = (7 * tenth)..(n - 1))
    /\ [][lastResult'.op = "modifiedConfig" => config' = config]_vars

\* The configuration of the first late spawn of 50 agents (35/50 = 0.7):
\* BACK_PREF 3 times 0.5, three halves.
C35_Witness ==
    /\ lastResult.op = "modifiedConfig"
    /\ config.NUM_AGENTS = 50
    /\ config.BACK_PREF = 3
    /\ spawned = 35
    /\ lastResult.cfg.BACK_PREF = 3

(***************************************************************************)
(* The sample series.                                                      *)
(***************************************************************************)
\* The first n samples of chart c.
Samples(c, n) == [i \in 1..n |-> <<c.time[i], c.seated[i], c.standing[i]>>]

\* C36: after t ticks that returned counts since the engine was initialized
\* (time = t) the series has t samples; sample i holds the tick value i and
\* the seated and standing counts at the end of tick i, after the advances
\* of that tick; and no step of the run changes or removes a sample already
\* appended (only an initialize() that succeeds empties the series).
C36_OneSamplePerTick ==
    /\ [](/\ Len(chartData.time) = time
          /\ Len(chartData.seated) = time
          /\ Len(chartData.standing) = time
          /\ \A i \in 1..time : chartData.time[i] = i)
    /\ [][IsCountingUpdate =>
             /\ time' = time + 1
             /\ chartData'.seated[time'] =
                    Cardinality({i \in DOMAIN agents' : agents'[i].seated})
             /\ chartData'.standing[time'] =
                    Cardinality({i \in DOMAIN agents' : agents'[i].standing})]_vars
    /\ [][lastResult' # [op |-> "initialize", ok |-> TRUE] =>
             /\ time' >= time
             /\ Samples(chartData', time) = Samples(chartData, time)]_vars

\* A run of six ticks whose first sample counts nobody and whose last counts
\* an agent seated and an agent standing.
C36_Witness ==
    /\ IsUpdateResult
    /\ time = 6
    /\ chartData.seated[1] = 0 /\ chartData.standing[1] = 0
    /\ chartData.seated[6] >= 1
    /\ chartData.standing[6] >= 1

(***************************************************************************)
(* set() on the configuration of a run in progress.                        *)
(***************************************************************************)
\* The engine built by build(): new SimulationEngine(this.configManager.config)
\* keeps the manager's own object in this.config, so config is the one
\* object both set() and update() work on.
TuneInit ==
    /\ Init
    /\ config.FEATURE_ASSIGNED_SEATS
    /\ config.MAX_TIME = LongMaxTime

\* The values of NUM_AGENTS and MAX_TIME a caller sets during the run, all
\* accepted by validate(): one agent fewer than configured or the configured
\* count again, and the short or the long tick limit.
TuneValues(key) ==
    IF key = "NUM_AGENTS" THEN {NumAgents - 1, NumAgents}
    ELSE {ShortMaxTime, LongMaxTime}

\* set(key, value) of an accepted value of NUM_AGENTS or MAX_TIME, no
\* listener registered: this.config[key] = value.
TuneSetSnapshot(key, value) ==
    /\ grid # Null
    /\ config' = config
    /\ lastResult' = [op |-> "set", key |-> key, value |-> value,
                      calls |-> <<>>, raised |-> FALSE]
    /\ UNCHANGED <<listeners, runHistory, ui, grid, agents, spawned, time, completed,
                   assigned, gates, seatBlocks, corridorSegs, blockToCorridorCells,
                   chartData>>

\* set(key, value) of an accepted value of NUM_AGENTS or MAX_TIME between
\* two ticks of an initialized engine, no listener registered:
\* this.config[key] = value.
TuneSet(key, value) ==
    /\ grid # Null
    /\ config' = [config EXCEPT ![key] = value]
    /\ lastResult' = [op |-> "set", key |-> key, value |-> value,
                      calls |-> <<>>, raised |-> FALSE]
    /\ UNCHANGED <<listeners, runHistory, ui, grid, agents, spawned, time, completed,
                   assigned, gates, seatBlocks, corridorSegs, blockToCorridorCells,
                   chartData>>

TuneNext ==
    \/ lastResult.op = "new" /\ EngineInitialize
    \/ EngineUpdate
    \/ \E key \in {"NUM_AGENTS", "MAX_TIME"} : \E value \in TuneValues(key) :
          TuneSet(key, value)

TuneSpec == TuneInit /\ [][TuneNext]_vars

\* C37: the update() that follows an accepted set of NUM_AGENTS or MAX_TIME
\* on a run in progress spawns against the agent count just set and
\* completes against the tick limit just set, while the set itself leaves
\* the seat blocks, the corridor segments, their map, the gates and the grid
\* as initialize() computed them.
C37_LiveConfiguration ==
    /\ [][(lastResult.op = "set" /\ IsCountingUpdate) =>
             LET budget == IF lastResult.key = "NUM_AGENTS" THEN lastResult.value
                           ELSE config.NUM_AGENTS
                 limit == IF lastResult.key = "MAX_TIME" THEN lastResult.value
                          ELSE config.MAX_TIME
             IN  /\ spawned' - spawned =
                        Min(Cardinality(FreeGates), Max(0, budget - spawned))
                 /\ completed' =
                        (\/ (\A i \in DOMAIN agents' : IsTerminal(agents'[i]))
                               /\ spawned' >= budget
                         \/ time' >= limit)]_vars
    /\ [][lastResult'.op = "set" =>
             /\ UNCHANGED <<seatBlocks, corridorSegs, blockToCorridorCells, gates, grid>>
             /\ seatBlocks = GenerateSeatBlocks(config'.COLS, config'.NUM_BLOCKS,
                                                config'.CORRIDOR_WIDTH)
             /\ corridorSegs = GenerateCorridorSegments(config'.COLS, seatBlocks,
                                                        config'.CORRIDOR_WIDTH)]_vars

\* A run configured for the long tick limit and NumAgents agents that was
\* completed by the short tick limit at tick 6, an agent still walking and
\* one agent fewer spawned than configured: both keys were set during the
\* run.
C37_Witness ==
    /\ IsUpdateResult
    /\ completed
    /\ time = 6
    /\ config.MAX_TIME = ShortMaxTime
    /\ config.NUM_AGENTS = NumAgents - 1
    /\ spawned = NumAgents - 1
    /\ \E i \in DOMAIN agents : ~IsTerminal(agents[i])

(***************************************************************************)
(* The animation timer.                                                    *)
(***************************************************************************)
\* The step ran update() on the controller's engine: it left the result of
\* an update() and a changed result or engine.
TicksEngine ==
    /\ lastResult'.op = "update"
    /\ lastResult' # lastResult \/ time' # time \/ agents' # agents \/ completed' # completed

\* The step is a restart() of a built controller (or another call that
\* leaves a newly constructed engine either started or not running).
LeavesNewEngine ==
    /\ ui.isBuilt
    /\ lastResult'.op = "initialize"
    /\ ui'.inStart \/ ~ui'.isRunning

\* C38: over every interleaving of build, start, pause, reset, restart and
\* timer firings at most one timeout is pending, and it is the one
\* animationId refers to; while isRunning is false none is pending and no
\* step runs update(); and a restart() leaves no timeout pending on the
\* engine it replaced: the engine it leaves is new (no tick, no agent, no
\* sample) and the next call of animate() is the one its own start() makes.
C38_OneTimerAndOnlyWhileRunning ==
    /\ [](/\ ui.pending \in {0, 1}
          /\ ui.timer <=> (ui.pending = 1)
          /\ ~ui.isRunning => (ui.pending = 0 /\ ~ui.inStart))
    /\ [][TicksEngine => (ui.isRunning /\ ui.hasSimulation)]_vars
    /\ [][LeavesNewEngine =>
             /\ ui'.pending = 0
             /\ time' = 0 /\ agents' = <<>> /\ chartData' = EmptyChart
             /\ ui'.isRunning => ui'.inStart]_vars

\* A second run in progress after a first one completed: its first tick is
\* done and one timeout is pending.
C38_Witness ==
    /\ ui.completions = 1
    /\ ui.isRunning
    /\ ~ui.inStart
    /\ ui.pending = 1
    /\ time = 1

(***************************************************************************)
(* The walk of a seat-bound agent in the hall of the source: 20 rows of 68 *)
(* columns, seats in rows 6..13, turn rows 16..19, gates in row 19.        *)
(***************************************************************************)
SourceHall ==
    [ROWS |-> 20, COLS |-> 68,
     SEAT_ROWS |-> [START |-> 6, END |-> 14],
     PATH_ROW_RANGE |-> [START |-> 16, END |-> 19]]

\* The configuration of the constructor with n blocks.
SourceConfig(n) ==
    [DefaultConfig EXCEPT !.NUM_BLOCKS = n,
                          !.CORRIDOR_WIDTH = CalculateCorridorWidth(SourceHall.COLS, n)]

SourceBlocks(n) ==
    GenerateSeatBlocks(SourceConfig(n).COLS, n, SourceConfig(n).CORRIDOR_WIDTH)

\* A gate, a block and a seat of that block, for every block count: what the
\* constructor holds when it comes to choose the corridor of a seat-bound
\* agent.
WalkArgs ==
    UNION {UNION {{[op |-> "args", numBlocks |-> n, gate |-> <<SourceHall.ROWS - 1, g>>,
                    block |-> b, seat |-> <<r, c>>] :
                      g \in SeqToSet(SourceGatePositions),
                      r \in SourceHall.SEAT_ROWS.START..(SourceHall.SEAT_ROWS.END - 1),
                      c \in SourceBlocks(n)[b][1]..SourceBlocks(n)[b][2]} :
                  b \in DOMAIN SourceBlocks(n)} :
           n \in Validations["NUM_BLOCKS"][1]..Validations["NUM_BLOCKS"][2]}

WalkInit ==
    /\ lastResult \in WalkArgs
    /\ config = DefaultConfig
    /\ listeners = <<>>
    /\ runHistory = <<>>
    /\ ui = InitialUI
    /\ grid = Null
    /\ agents = <<>>
    /\ spawned = 0
    /\ time = 0
    /\ completed = FALSE
    /\ assigned = {}
    /\ gates = <<>>
    /\ seatBlocks = <<>>
    /\ corridorSegs = <<>>
    /\ blockToCorridorCells = <<>>
    /\ chartData = EmptyChart

\* The last three assignments of the constructor for a seat-bound agent:
\* corridor, row0 and path.
WalkCall ==
    /\ lastResult.op = "args"
    /\ LET cfg == SourceConfig(lastResult.numBlocks)
           blocks == SourceBlocks(lastResult.numBlocks)
           b2c == BlockToCorridorCells(
                      cfg, GenerateCorridorSegments(cfg.COLS, blocks, cfg.CORRIDOR_WIDTH))
       IN  \E corridor \in PickPreferredCorridorCell(lastResult.block, lastResult.seat[2], b2c) :
           \E row0 \in SourceHall.PATH_ROW_RANGE.START..SourceHall.PATH_ROW_RANGE.END :
              lastResult' = [op |-> "walk", numBlocks |-> lastResult.numBlocks,
                             gate |-> lastResult.gate, block |-> lastResult.block,
                             seat |-> lastResult.seat, corridor |-> corridor,
                             row0 |-> row0,
                             path |-> ComputeSimplePath(lastResult.gate, corridor,
                                                        lastResult.seat, row0)]
    /\ UNCHANGED <<config, listeners, runHistory, ui, grid, agents, spawned, time,
                   completed, assigned, gates, seatBlocks, corridorSegs,
                   blockToCorridorCells, chartData>>

WalkNext == WalkCall

WalkSpec == WalkInit /\ [][WalkNext]_vars

\* Cell p is in the seat band and in a column of some block of the layout
\* with n blocks.
IsSeatCell(p, n) ==
    /\ p[1] \in SourceHall.SEAT_ROWS.START..(SourceHall.SEAT_ROWS.END - 1)
    /\ \E b \in DOMAIN SourceBlocks(n) :
          p[2] \in SourceBlocks(n)[b][1]..SourceBlocks(n)[b][2]

\* C39: every cell of a seat-bound agent's path that lies in the seat band
\* in a column of a block is in the row of its seat and in the columns of
\* its own block; every other cell of the path is in rows 16..19 or in its
\* corridor column; the path ends on the seat.
C39_WalkKeepsOffOtherSeats ==
    lastResult.op = "walk" =>
        LET own == SourceBlocks(lastResult.numBlocks)[lastResult.block]
            path == lastResult.path
        IN  /\ \A i \in DOMAIN path :
                  IF IsSeatCell(path[i], lastResult.numBlocks)
                  THEN /\ path[i][1] = lastResult.seat[1]
                       /\ path[i][2] \in own[1]..own[2]
                  ELSE \/ path[i][1] \in SourceHall.PATH_ROW_RANGE.START..
                                            SourceHall.PATH_ROW_RANGE.END
                       \/ path[i][2] = lastResult.corridor
              /\ path # <<>>
              /\ path[Len(path)] = lastResult.seat

\* A walk from the first gate to a seat of the last of six blocks, in the
\* first row of the band, eight rows up the corridor past the other rows.
C39_Witness ==
    /\ lastResult.op = "walk"
    /\ lastResult.numBlocks = 6
    /\ lastResult.block = 5
    /\ lastResult.gate[2] = 10
    /\ lastResult.seat[1] = 6
    /\ lastResult.corridor = SourceBlocks(6)[5][1] - 1
    /\ lastResult.seat[2] = SourceBlocks(6)[5][1] + 3
















====
